---- MODULE Spec2Model ----
(***************************************************************************)
(* Model of the event-frame extraction engine of piwebapi_etl              *)
(* (fetch_eventframes.py): the work-stack of time intervals with           *)
(* bisection at the page cap, and the two-level thread-pool harvest of     *)
(* attributes.  One call of fetch_eventframes is one behaviour; the remote *)
(* PI Web API is the environment and answers every request                 *)
(* nondeterministically (data or failure).                                 *)
(***************************************************************************)
EXTENDS Integers, Sequences, FiniteSets, TLC

(* ---------------- program constants ---------------- *)
MAX_WORKERS == 20
ATTR_MAX_WORKERS == 5
CHUNK_SIZE == 1000
\* microseconds per second: datetime resolution against strftime('%S')
MICROS == 1000000

(* ---------------- bounds of the model ---------------- *)
\* longest list result below the page cap that is enumerated frame by frame
MaxList == 3
\* most frames of one list result that are not open (one batch)
MaxBatch == 2
\* most frames dispatched to the harvester in one run
MaxFrames == 2
\* most attribute descriptors in one attribute directory
MaxAttrs == 2
\* widest caller interval, in units of the width threshold w
MaxSpan == 2
\* the same for the runs that exercise the chunking, and the frames they
\* may dispatch
ChunkSpan == 4
ChunkFrames == 1
\* most list queries of one run
MaxQueries == 16
\* last second of the time strings of the frames
MaxSec == 3
\* frames of a batch beyond MAX_WORKERS, and attributes of a directory
\* beyond ATTR_MAX_WORKERS, in the runs that fill the thread pools
PoolExtra == 1

NoneVal == "<None>"

\* the UTC offsets of the arguments of to_site_local reach this many hours
\* on either side of UTC
MaxOffHours == 4

\* cycles of the polling loop of etl.py that are followed
MaxCycles == 2

(* ---------------- site registry and environment ---------------- *)
SITES_PARAM ==
  [ TRINIDAD |-> [AUTH |-> "BASIC", TIMEZONE |-> "America/Port_of_Spain"],
    EGYPT    |-> [AUTH |-> "KERBEROS", TIMEZONE |-> "Africa/Cairo"] ]

\* site identifiers a caller passes
SiteInputs == {"TRINIDAD", "EGYPT", "ATLANTIS"}

(* ---------------- datetimes ---------------- *)
\* an aware datetime: t = the instant in microseconds, off = its UTC offset
DT(t, off) == [t |-> t, off |-> off]

\* the division forgotten: mid = start
HalfDeltaZero(d) == 0

\* timedelta / 2 rounds the microsecond count half to even
HalfDelta(d) ==
  LET q == d \div 2
      r == d % 2
  IN  IF r = 1 /\ q % 2 = 1 THEN q + 1 ELSE q

\* the quotient truncated to a whole microsecond
MidpointFloor(start, end) == DT(start.t + (end.t - start.t) \div 2, start.off)

\* mid = start + (end - start) / 2 ; keeps the tzinfo of start
Midpoint(start, end) == DT(start.t + HalfDelta(end.t - start.t), start.off)

\* strftime('%Y-%m-%dT%H:%M:%SZ'): the wall-clock fields truncated to whole
\* seconds, suffixed with a literal Z (the value is the second count the
\* string denotes when read as UTC)
FormatZ(dt) == (dt.t + dt.off) \div MICROS

Width(iv) == iv[2].t - iv[1].t

(* ---------------- frame descriptors ---------------- *)
OpenEnd == "9999-12-31T23:59:59Z"

\* the seconds after 2025-01-01T00:00:00Z that frames start and end at, and
\* their UTC time strings as the API sends them
Seconds == 0..MaxSec
UtcString(n) == "2025-01-01T00:00:0" \o ToString(n) \o "Z"

\* s.startswith('9999-12-31') over the time strings of the model
StartsWithSentinel(s) == s \in {"9999-12-31T23:59:59Z", "9999-12-31T00:00:00Z"}

Frame(id, startTime, endTime, link) ==
  [ Name |-> "EF " \o id, StartTime |-> startTime, EndTime |-> endTime,
    TemplateName |-> "Excursion template", WebId |-> "W" \o id, Id |-> id,
    Links |-> [Attributes |-> link] ]

\* the frames of the remote database, in the order the API lists them: a
\* closed frame with an attribute directory, a frame without EndTime and
\* without directory link, a frame still in progress, and a second closed
\* frame with an attribute directory
Catalogue ==
  << Frame("ef1", UtcString(0), UtcString(0), "attrs/ef1"),
     Frame("ef2", UtcString(1), NoneVal, NoneVal),
     Frame("ef3", UtcString(1), OpenEnd, "attrs/ef3"),
     Frame("ef4", UtcString(2), UtcString(2), "attrs/ef4") >>

\* (ef.get('EndTime') or '').startswith('9999-12-31')
IsOpen(ef) ==
  StartsWithSentinel(IF ef.EndTime = NoneVal THEN "" ELSE ef.EndTime)

\* the filter reading a key the descriptors do not have: nothing is removed
FilterOpenWrongKey(efs) == SelectSeq(efs, LAMBDA ef : TRUE)

\* filtered_eventframes
FilterOpen(efs) == SelectSeq(efs, LAMBDA ef : ~IsOpen(ef))

SeqsUpTo(S, n) == UNION { [1..k -> S] : k \in 0..n }

\* the frames of the catalogue with index in S, in catalogue order
Listing(S) ==
  LET idx == CHOOSE f \in [1..Cardinality(S) -> S] :
               \A a, b \in 1..Cardinality(S) : a < b => f[a] < f[b]
  IN  [i \in 1..Cardinality(S) |-> Catalogue[idx[i]]]

\* n frames in progress that started at second sec
OpenBulkAt(n, sec) ==
  [i \in 1..n |-> Frame("open" \o ToString(i), UtcString(sec), OpenEnd, NoneVal)]

\* n closed frames with distinct ids
ClosedBulk(n) ==
  [i \in 1..n |->
     Frame("bulk" \o ToString(i), UtcString(0), UtcString(0), "attrs/bulk")]

\* the Items a list query can return: short lists frame by frame, lists at
\* and above the page cap, and a list one below the cap
ListItems ==
  { Listing(S) : S \in { T \in SUBSET DOMAIN Catalogue : Cardinality(T) <= MaxList } }
    \cup { ClosedBulk(CHUNK_SIZE), ClosedBulk(CHUNK_SIZE + 1),
           OpenBulkAt(CHUNK_SIZE - 2, 0) \o << Catalogue[4] >> }

\* the frames of a remote database: the catalogue and a bulk of open frames
DbFrames(db) == Catalogue \o OpenBulkAt(db.bulk, db.at)

\* parse_date of a time string of the model
ParseSec(s) == CHOOSE n \in Seconds : UtcString(n) = s

\* the seconds a frame covers on the remote side; a frame in progress has
\* no end yet, a frame without EndTime is taken as an instant
FrameFrom(ef) == ParseSec(ef.StartTime)
FrameCovers(ef, a, b) ==
  /\ FrameFrom(ef) <= b
  /\ \/ IsOpen(ef)
     \/ (IF ef.EndTime = NoneVal THEN FrameFrom(ef) ELSE ParseSec(ef.EndTime)) >= a

\* the uncapped answer of the database to startTime = a, endTime = b: the
\* frames that overlap [a, b]
DbMatch(db, a, b) == SelectSeq(DbFrames(db), LAMBDA ef : FrameCovers(ef, a, b))

\* each of them with the number of its frames that are not open
ListChoices == { [items |-> x, closed |-> Len(FilterOpen(x))] : x \in ListItems }

(* ---------------- attribute descriptors ---------------- *)
Attr(name, link, value) ==
  [Name |-> name, Links |-> [Value |-> link], Value |-> value]

DictValue == "dict{a:1}"
\* json.dumps of the compound values of the model
JsonDumps(v) == "json:" \o v

\* attributes whose value is behind a link
LinkedAttrs == { Attr("A", "value/A", NoneVal), Attr("B", "value/B", NoneVal) }
\* attributes with an inline value: one named like a core field and with a
\* compound value, one without a name
InlineAttrs == { Attr("Id", NoneVal, DictValue), Attr("", NoneVal, "inline") }

\* an attribute that carries both a value link and an inline value
BothAttr == Attr("C", "value/C", "inline")

\* an attribute behind a link whose name is the key of a core field
ClashAttr == Attr("Start Time", "value/StartTime", NoneVal)

\* an attribute directory longer than the nested pool is wide
PoolDir ==
  [j \in 1..(ATTR_MAX_WORKERS + PoolExtra) |->
     Attr("P" \o ToString(j), "value/P" \o ToString(j), NoneVal)]

\* the Items the attribute directory of a frame can return: for ef1 any
\* list of distinct linked attributes, or an attribute next to the one
\* named like a core field; for every other frame at most one inline
\* attribute
DirItems(ef) ==
  IF ef.Links.Attributes = "attrs/bulk" THEN { PoolDir }
  ELSE IF ef.Id = "ef1"
  THEN { x \in SeqsUpTo(LinkedAttrs, MaxAttrs) :
           \A a, b \in DOMAIN x : a # b => x[a] # x[b] }
         \cup { << Attr("A", "value/A", NoneVal), ClashAttr >> }
  ELSE { << >> } \cup { << a >> : a \in InlineAttrs \cup {BothAttr} }

\* the Value a value endpoint can return
FetchedValues == {"42"}

\* isinstance(actual_value, (dict, list)) -> json.dumps
ValueToStore(v) == IF v = DictValue THEN JsonDumps(v) ELSE v

(* ---------------- flat records ---------------- *)
CoreKeys ==
  { "Event Frame Name", "Start Time", "Start Time UTC", "End Time",
    "End Time UTC", "Template Name", "WebId", "Id" }

EmptyDict == [k \in {} |-> ""]

\* the attribute values take the place of the record
DictReplaced(d, e) == e

\* dict.update
DictUpdate(d, e) ==
  [k \in DOMAIN d \cup DOMAIN e |-> IF k \in DOMAIN e THEN e[k] ELSE d[k]]

\* the dictionary is started again with the one entry
DictSetAlone(d, name, value) == [k \in {name} |-> value]

\* d[name] = value
DictSet(d, name, value) ==
  [k \in DOMAIN d \cup {name} |-> IF k = name THEN value ELSE d[k]]


(* ---------------- state ---------------- *)
VARIABLES
  site, creds,          \* the site argument; PIWEBAPI_USER/PASS both set
  conv,                 \* a call of to_site_local from outside the fetch:
                        \* its argument and its outcome
  run,                  \* etl.py in run mode: position in the polling
                        \* loop, clock, checkpoints, the visits of the cycle
  env,                  \* the remote side: w = intervals no wider than w
                        \* microseconds hold fewer than CHUNK_SIZE frames;
                        \* budget = frames it lets a run dispatch; db = the
                        \* frames it serves when it answers from a database;
                        \* zones = the zones of its host's timezone database
  pc,                   \* control thread: call, loop, list, harvest,
                        \* returned, raised
  processing_stack,     \* list of (start, end); the top is the last element
  cur,                  \* start, end of the popped interval
  all_data, all_attrs,  \* accumulators of fetch_eventframes
  chunk_data, chunk_attrs, \* accumulators of _fetch_attributes_parallel
  futures,              \* the frame tasks of the running batch
  open_sessions,        \* sessions opened and not yet closed
  dispatched,           \* number of frames handed to the harvester so far
  qlog,                 \* history: one entry per list query
  chunk_src, all_src    \* history: for each record, where it comes from

vars ==
  << site, creds, env, conv, run, pc, processing_stack, cur, all_data,
     all_attrs, chunk_data, chunk_attrs, futures, open_sessions, dispatched,
     qlog, chunk_src, all_src >>

LIST_SESSION == 0

\* (site, credentials in the environment) of the calls of the model
CallInputs ==
  { <<"TRINIDAD", TRUE>>, <<"TRINIDAD", FALSE>>, <<"EGYPT", FALSE>>,
    <<"ATLANTIS", TRUE>> }

\* (width threshold of the environment, first instant of the interval):
\* intervals of a few microseconds across a second boundary, and intervals
\* of a few seconds
Scales == { <<1, MICROS - 2>>, <<MICROS, 0>> }

NoDb == << >>

\* the remote side of the runs that fill the thread pools: one list result
\* of env.db.pool closed frames, every request answered with data, and a
\* scheduler that lets threads start before it lets requests return
PoolMode == env.db # NoDb /\ "pool" \in DOMAIN env.db

\* the zones of the site registry and their UTC offsets in seconds
\* (neither zone has daylight saving time at the instants of the model)
AllZones == { SITES_PARAM[s].TIMEZONE : s \in DOMAIN SITES_PARAM }
ZoneOffset(tz) == IF tz = "America/Port_of_Spain" THEN -14400 ELSE 7200

\* ZoneInfo(tz_name) finds the zone in the timezone database of the host
ZoneInfoFound(tz) == tz \in env.zones

\* a naive datetime has no tzinfo
Naive(t) == [t |-> t]

\* the outcome of a call: the exception raised, or "" and the value returned
Raised(e) == [err |-> e, dt |-> NoneVal]
Returned(v) == [err |-> "", dt |-> v]

\* the offset of the argument is not compared with that of UTC
to_site_local_any_offset(utc_dt, st) ==
  IF "off" \notin DOMAIN utc_dt THEN Raised("ValueError")
  ELSE IF ~ZoneInfoFound(SITES_PARAM[st].TIMEZONE) THEN Raised("RuntimeError")
  ELSE Returned(DT(utc_dt.t, ZoneOffset(SITES_PARAM[st].TIMEZONE)))

\* to_site_local: the same instant in the zone of the site
to_site_local(utc_dt, st) ==
  IF "off" \notin DOMAIN utc_dt THEN Raised("ValueError")
  ELSE IF utc_dt.off # 0 THEN Raised("ValueError")
  ELSE IF ~ZoneInfoFound(SITES_PARAM[st].TIMEZONE) THEN Raised("RuntimeError")
  ELSE Returned(DT(utc_dt.t, ZoneOffset(SITES_PARAM[st].TIMEZONE)))

\* strftime('%Y-%m-%dT%H:%M:%S') of second n of 2025-01-01 UTC in the zone
\* of the site: America/Port_of_Spain is UTC-4, Africa/Cairo is UTC+2
LocalString(n, tz) ==
  IF tz = "America/Port_of_Spain"
  THEN "2024-12-31T20:00:0" \o ToString(n)
  ELSE "2025-01-01T02:00:0" \o ToString(n)

\* try: to_site_local(...).strftime(...) except Exception: return ''
ConvertOrEmpty(r, tz) ==
  IF r.err # "" THEN "" ELSE LocalString(r.dt.t \div MICROS, tz)

\* _convert_to_local_time: '' for a missing string or any conversion error,
\* else the site-local wall clock without offset
ConvertToLocalTime(s, st) ==
  IF s = NoneVal \/ s = "" THEN ""
  ELSE IF \E n \in Seconds : UtcString(n) = s
       THEN LET n == CHOOSE n \in Seconds : UtcString(n) = s
            IN  ConvertOrEmpty(to_site_local(DT(n * MICROS, 0), st),
                               SITES_PARAM[st].TIMEZONE)
       ELSE ""

\* _parse_eventframe_basic_info
ParseBasicInfo(ef, st) ==
  [ k \in CoreKeys |->
      CASE k = "Event Frame Name" -> ef.Name
        [] k = "Start Time" -> ConvertToLocalTime(ef.StartTime, st)
        [] k = "Start Time UTC" -> ef.StartTime
        [] k = "End Time" -> ConvertToLocalTime(ef.EndTime, st)
        [] k = "End Time UTC" -> ef.EndTime
        [] k = "Template Name" -> ef.TemplateName
        [] k = "WebId" -> ef.WebId
        [] k = "Id" -> ef.Id ]

\* no call of to_site_local from outside the fetch
NoConv == [utc_dt |-> Naive(0), out |-> Raised("none")]

\* the remote side of the runs where the first list query returns
\* env.db.first items and every later one fewer than CHUNK_SIZE
ScenarioMode == env.db # NoDb /\ "first" \in DOMAIN env.db

\* the remote side of the runs where every list query returns env.db.full
\* items, CHUNK_SIZE or more, however narrow the interval
\* etl.py is not running: fetch_eventframes was called on its own
NoRun == [pc |-> "off"]

FullMode == env.db # NoDb /\ "full" \in DOMAIN env.db

InitCommon ==
  /\ pc = "call"
  /\ conv = NoConv
  /\ run = NoRun
  /\ all_data = << >> /\ all_attrs = {}
  /\ chunk_data = << >> /\ chunk_attrs = {}
  /\ futures = << >>
  /\ open_sessions = {}
  /\ dispatched = 0
  /\ qlog = << >>
  /\ chunk_src = << >> /\ all_src = << >>

Init ==
  /\ \E c \in CallInputs : site = c[1] /\ creds = c[2]
  /\ \E k \in 0..MaxSpan :
       /\ site = "EGYPT" => k = 0
       /\ env = [w |-> 1, budget |-> MaxFrames, db |-> NoDb,
                zones |-> AllZones]
       /\ cur = << DT(MICROS - 2, 0), DT(MICROS - 2 + k, 0) >>
  /\ processing_stack = << >>
  /\ InitCommon

(* ---------------- fetch_eventframes: the control thread ---------------- *)
\* the credentials are not looked at
AuthNeverFails(s, c) == FALSE

\* get_auth_for_site raises ValueError
AuthFails(s, c) == SITES_PARAM[s].AUTH = "BASIC" /\ ~c

\* entry of fetch_eventframes up to the head of the loop
Call ==
  /\ pc = "call"
  /\ IF site \notin DOMAIN SITES_PARAM
     THEN /\ pc' = "returned"
          /\ UNCHANGED << processing_stack, open_sessions >>
     ELSE IF AuthFails(site, creds)
     THEN /\ pc' = "raised"
          /\ processing_stack' = << cur >>
          /\ UNCHANGED open_sessions
     ELSE /\ pc' = "loop"
          /\ processing_stack' = << cur >>
          /\ open_sessions' = open_sessions \cup {LIST_SESSION}
  /\ UNCHANGED << site, creds, env, conv, run, cur, all_data, all_attrs,
                  chunk_data, chunk_attrs, futures, dispatched, qlog,
                  chunk_src, all_src >>

\* the top is read and left on the stack
Peeked(stack) == stack

\* the stack after processing_stack.pop()
Popped(stack) == SubSeq(stack, 1, Len(stack) - 1)

\* start, end = processing_stack.pop(); session.get(url) is sent
Pop ==
  /\ pc = "loop"
  /\ processing_stack # << >>
  /\ Len(qlog) < MaxQueries
  /\ cur' = processing_stack[Len(processing_stack)]
  /\ processing_stack' = Popped(processing_stack)
  /\ pc' = "list"
  /\ UNCHANGED << site, creds, env, conv, run, all_data, all_attrs,
                  chunk_data, chunk_attrs, futures, open_sessions, dispatched,
                  qlog, chunk_src, all_src >>

\* a frame task as submitted to the executor
NewTask(ef) ==
  [ ef |-> ef, st |-> "queued", ef_data |-> EmptyDict,
    attribute_names |-> {}, session |-> -1, dir |-> "none",
    vt |-> << >>, attribute_values |-> EmptyDict,
    doneAt |-> 0, takenAt |-> 0 ]

\* the answers the environment may give to the list query of interval iv:
\* a failure (ok = FALSE) or Items
ListAnswers(iv) ==
  IF PoolMode
  THEN { [ok |-> TRUE, items |-> ClosedBulk(env.db.pool)] }
  ELSE IF FullMode
  THEN { [ok |-> TRUE, items |-> ClosedBulk(env.db.full)] }
  ELSE IF ScenarioMode
  THEN IF qlog = << >>
       THEN { [ok |-> TRUE, items |-> ClosedBulk(env.db.first)] }
       ELSE { [ok |-> FALSE, items |-> << >>] } \cup
            { [ok |-> TRUE, items |-> c.items] : c \in
                { x \in ListChoices :
                    /\ Len(x.items) < CHUNK_SIZE
                    /\ x.closed <= MaxBatch
                    /\ dispatched + x.closed <= env.budget } }
  ELSE IF env.db # NoDb
  THEN { [ok |-> TRUE,
          items |-> DbMatch(env.db, FormatZ(iv[1]), FormatZ(iv[2]))] }
  ELSE
  { [ok |-> FALSE, items |-> << >>] } \cup
  { [ok |-> TRUE, items |-> c.items] : c \in
      { x \in ListChoices :
          IF Len(x.items) >= CHUNK_SIZE THEN Width(iv) > env.w
          ELSE x.closed <= MaxBatch /\ dispatched + x.closed <= env.budget } }

\* the split test with > instead of >=
DecisionAboveCap(efs) ==
  IF Len(efs) > CHUNK_SIZE THEN "split"
  ELSE IF efs = << >> THEN "empty"
  ELSE IF FilterOpen(efs) = << >> THEN "all_open"
  ELSE "dispatch"

\* what the loop body does with the list result
Decision(efs) ==
  IF Len(efs) >= CHUNK_SIZE THEN "split"
  ELSE IF efs = << >> THEN "empty"
  ELSE IF FilterOpen(efs) = << >> THEN "all_open"
  ELSE "dispatch"

\* an empty list result ends the run with an exception
AfterListEmptyRaises(d) ==
  IF d = "dispatch" THEN "harvest"
  ELSE IF d = "empty" THEN "raised"
  ELSE "loop"

\* where the loop body leaves the control thread: the three continue
\* statements lead back to the head of the loop
AfterList(d) == IF d = "dispatch" THEN "harvest" ELSE "loop"

\* the later half with its bounds in the other order
UpperHalfReversed(start, end) == << end, Midpoint(start, end) >>

\* the tuple (mid, end) of line 202
UpperHalf(start, end) == << Midpoint(start, end), end >>

\* the earlier half ends where it starts
LowerHalfEmpty(start, end) == << start, start >>

\* the tuple (start, mid) of line 203
LowerHalf(start, end) == << start, Midpoint(start, end) >>

\* the two tuples are appended in the other order
PushedEarlierFirst(stack, later, earlier) == Append(Append(stack, earlier), later)

\* the two append calls of lines 202-203: the tuple appended last is on top
Pushed(stack, later, earlier) == Append(Append(stack, later), earlier)

\* only the earlier half is pushed
PushLowerHalf(stack, start, end) ==
  Append(stack, << start, Midpoint(start, end) >>)

\* processing_stack.append((mid, end)); processing_stack.append((start, mid))
PushHalves(stack, start, end) ==
  Pushed(stack, UpperHalf(start, end), LowerHalf(start, end))

\* _fetch_eventframe_list returns and the loop body runs up to the
\* submission of the frame tasks
ListResponse ==
  /\ pc = "list"
  /\ \E a \in ListAnswers(cur) :
       LET efs == IF a.ok THEN a.items ELSE << >>
           start == cur[1]
           end == cur[2]
           filtered == FilterOpen(efs)
           d == Decision(efs)
       IN  /\ qlog' = Append(qlog,
                [ iv |-> cur, ok |-> a.ok, n |-> Len(efs), act |-> d,
                  removed_count |-> Len(efs) - Len(filtered),
                  batch |-> IF d = "dispatch" THEN filtered ELSE << >> ])
           /\ pc' = AfterList(d)
           /\ IF d = "split"
              THEN /\ processing_stack' = PushHalves(processing_stack, start, end)
                   /\ UNCHANGED << futures, dispatched >>
              ELSE IF d = "dispatch"
              THEN /\ futures' = [i \in 1..Len(filtered) |-> NewTask(filtered[i])]
                   /\ dispatched' = dispatched + Len(filtered)
                   /\ UNCHANGED processing_stack
              ELSE UNCHANGED << processing_stack, futures, dispatched >>
  /\ chunk_data' = << >> /\ chunk_attrs' = {} /\ chunk_src' = << >>
  /\ UNCHANGED << site, creds, env, conv, run, cur, all_data, all_attrs, open_sessions,
                  all_src >>

\* the with block is left and the session stays open
SessionLeftOpen(S, s) == S

\* leaving `with requests.Session() as session` closes the session
CloseSession(S, s) == S \ {s}

\* the stack is empty: the list session is closed and the pair is returned
Return ==
  /\ pc = "loop"
  /\ processing_stack = << >>
  /\ open_sessions' = CloseSession(open_sessions, LIST_SESSION)
  /\ pc' = "returned"
  /\ UNCHANGED << site, creds, env, conv, run, processing_stack, cur,
                  all_data, all_attrs, chunk_data, chunk_attrs, futures,
                  dispatched, qlog, chunk_src, all_src >>


(* ---------------- fetch_attributes: one frame task ---------------- *)
ctl == << site, creds, env, conv, run, pc, processing_stack, cur, all_data,
          all_attrs, dispatched, qlog, all_src >>

\* frame tasks that occupy a worker thread of the frame-level pool
RunningFrames == { i \in DOMAIN futures : futures[i].st \in {"dir", "values"} }

\* an attribute-value task as submitted to the nested executor; session is
\* the session object the closure fetch_single_attribute_value captured
NewValueTask(attr, session) ==
  [ attr |-> attr, st |-> "queued", session |-> session,
    res |-> << "", "" >>, out |-> "none" ]

\* value tasks of frame task i that occupy a worker of the nested pool
RunningValues(i) == { j \in DOMAIN futures[i].vt : futures[i].vt[j].st = "get" }

\* a thread per submitted frame task
StartableFramesUnbounded ==
  { i \in DOMAIN futures :
      /\ futures[i].st = "queued"
      /\ \A j \in 1..(i - 1) : futures[j].st # "queued" }

\* the frame task a free worker of the frame-level pool takes next
StartableFrames ==
  { i \in DOMAIN futures :
      /\ futures[i].st = "queued"
      /\ \A j \in 1..(i - 1) : futures[j].st # "queued"
      /\ Cardinality(RunningFrames) < MAX_WORKERS }

\* the value tasks a free worker of a nested pool takes next
StartableValues ==
  { p \in UNION { {i} \X DOMAIN futures[i].vt : i \in DOMAIN futures } :
      /\ futures[p[1]].st = "values"
      /\ futures[p[1]].vt[p[2]].st = "queued"
      /\ \A k \in 1..(p[2] - 1) : futures[p[1]].vt[k].st # "queued"
      /\ Cardinality(RunningValues(p[1])) < ATTR_MAX_WORKERS }

\* the value tasks in state st of the frame tasks that wait for values
ValuesIn(st) ==
  { p \in UNION { {i} \X DOMAIN futures[i].vt : i \in DOMAIN futures } :
      futures[p[1]].st = "values" /\ futures[p[1]].vt[p[2]].st = st }

\* the frame tasks in state st
FramesIn(st) == { i \in DOMAIN futures : futures[i].st = st }

\* the first pair of a non-empty set of pairs, by frame then by attribute
FirstOf(P) ==
  CHOOSE p \in P : \A q \in P : p[1] < q[1] \/ (p[1] = q[1] /\ p[2] <= q[2])

\* the step the scheduler of the pool-filling runs lets happen: results are
\* handed over as soon as they exist, threads start as soon as a worker is
\* free, and only then the oldest request returns
EagerStep ==
  LET done == FramesIn("done")
      fin == { i \in FramesIn("values") :
                 \A j \in DOMAIN futures[i].vt : futures[i].vt[j].st = "collected" }
  IN  IF done # {} THEN << "Collect", FirstOf(done \X {0}) >>
      ELSE IF fin # {} THEN << "FrameFinish", FirstOf(fin \X {0}) >>
      ELSE IF ValuesIn("done") # {} THEN << "ValueCollect", FirstOf(ValuesIn("done")) >>
      ELSE IF StartableFrames # {} THEN << "FrameStart", FirstOf(StartableFrames \X {0}) >>
      ELSE IF FramesIn("dir") # {} THEN << "DirResponse", FirstOf(FramesIn("dir") \X {0}) >>
      ELSE IF StartableValues # {} THEN << "ValueStart", FirstOf(StartableValues) >>
      ELSE IF ValuesIn("get") # {} THEN << "ValueResponse", FirstOf(ValuesIn("get")) >>
      ELSE << "none", << 0, 0 >> >>

\* the scheduler lets step kind of frame task i (value task j) happen: any
\* enabled step, except in the pool-filling runs
Scheduled(kind, i, j) == PoolMode => EagerStep = << kind, << i, j >> >>

\* history: the events of the running batch, the returns of frame tasks and
\* the hand-overs to the control thread, are numbered from 1 in the order
\* they happen; doneAt and takenAt of a frame task hold the numbers of its
\* return and of its hand-over (0 before)
Clock ==
  Cardinality(FramesIn("done")) + 2 * Cardinality(FramesIn("collected")) + 1

\* fetch_attributes returns
Completes(f) == [f EXCEPT !.doneAt = Clock]

\* the link is not looked at
AttributesLinkAssumed(ef) == TRUE

\* attributes_link = ef.get('Links', {}).get('Attributes') is truthy
HasAttributesLink(ef) == ef.Links.Attributes # NoneVal

\* a worker takes the next frame task from the queue and runs
\* fetch_attributes up to its first request
FrameStart(i) ==
  /\ pc = "harvest"
  /\ i \in DOMAIN futures
  /\ i \in StartableFrames
  /\ Scheduled("FrameStart", i, 0)
  /\ LET f == futures[i]
         ef_data == ParseBasicInfo(f.ef, site)
     IN  IF ~HasAttributesLink(f.ef)
         THEN /\ futures' = [futures EXCEPT ![i] =
                   Completes([f EXCEPT !.st = "done", !.ef_data = ef_data,
                                       !.dir = "nolink"])]
              /\ UNCHANGED open_sessions
         ELSE /\ futures' = [futures EXCEPT ![i] =
                   [f EXCEPT !.st = "dir", !.ef_data = ef_data,
                             !.session = i]]
              /\ open_sessions' = open_sessions \cup {i}
  /\ UNCHANGED << ctl, chunk_data, chunk_attrs, chunk_src >>

\* the answers to the request for the attribute directory
DirAnswers(ef) ==
  (IF PoolMode THEN {} ELSE { [ok |-> FALSE, items |-> << >>] }) \cup
  { [ok |-> TRUE, items |-> it] : it \in DirItems(ef) }

\* the failure empties the record
DirFailedEmptyRecord(f) ==
  [f EXCEPT !.st = "done", !.dir = "fail", !.ef_data = EmptyDict]

\* except Exception: ef_data and attribute_names are returned as they are
DirFailed(f) == [f EXCEPT !.st = "done", !.dir = "fail"]

\* the directory request returns; the value tasks are submitted
DirResponse(i) ==
  /\ pc = "harvest"
  /\ i \in DOMAIN futures
  /\ futures[i].st = "dir"
  /\ Scheduled("DirResponse", i, 0)
  /\ LET f == futures[i]
     IN  \E a \in DirAnswers(f.ef) :
           IF ~a.ok
           THEN /\ futures' = [futures EXCEPT ![i] = Completes(DirFailed(f))]
                /\ open_sessions' = CloseSession(open_sessions, f.session)
           ELSE IF a.items = << >>
           THEN /\ futures' = [futures EXCEPT ![i] =
                     Completes([f EXCEPT !.st = "done", !.dir = "empty"])]
                /\ open_sessions' = CloseSession(open_sessions, f.session)
           ELSE /\ futures' = [futures EXCEPT ![i] =
                     [f EXCEPT !.st = "values", !.dir = "items",
                        !.vt = [j \in 1..Len(a.items) |->
                                  NewValueTask(a.items[j], f.session)]]]
                /\ UNCHANGED open_sessions
  /\ UNCHANGED << ctl, chunk_data, chunk_attrs, chunk_src >>

\* the value endpoint is asked only when the descriptor has no inline value
ValueLinkUnlessInline(attr) ==
  attr.Links.Value # NoneVal /\ attr.Value = NoneVal

\* value_link = attr.get('Links', {}).get('Value') is truthy
HasValueLink(attr) == attr.Links.Value # NoneVal

\* a worker of the nested pool takes the next value task and runs
\* fetch_single_attribute_value up to its request, or to its end when the
\* value is inline
ValueStart(i, j) ==
  /\ pc = "harvest"
  /\ i \in DOMAIN futures
  /\ futures[i].st = "values"
  /\ j \in DOMAIN futures[i].vt
  /\ futures[i].vt[j].st = "queued"
  /\ Scheduled("ValueStart", i, j)
  /\ \A k \in 1..(j - 1) : futures[i].vt[k].st # "queued"
  /\ Cardinality(RunningValues(i)) < ATTR_MAX_WORKERS
  /\ LET v == futures[i].vt[j]
     IN  IF HasValueLink(v.attr)
         THEN futures' = [futures EXCEPT ![i].vt[j].st = "get"]
         ELSE futures' = [futures EXCEPT ![i].vt[j] =
                [v EXCEPT !.st = "done", !.out = "inline",
                          !.res = << v.attr.Name, ValueToStore(v.attr.Value) >>]]
  /\ UNCHANGED << ctl, chunk_data, chunk_attrs, chunk_src, open_sessions >>

\* the answers to a value request
ValueAnswers ==
  (IF PoolMode THEN {} ELSE { [ok |-> FALSE, value |-> ""] }) \cup
  { [ok |-> TRUE, value |-> x] : x \in FetchedValues }

\* the value request returns
ValueResponse(i, j) ==
  /\ pc = "harvest"
  /\ i \in DOMAIN futures
  /\ j \in DOMAIN futures[i].vt
  /\ futures[i].vt[j].st = "get"
  /\ Scheduled("ValueResponse", i, j)
  /\ LET v == futures[i].vt[j]
     IN  \E a \in ValueAnswers :
           futures' = [futures EXCEPT ![i].vt[j] =
             [v EXCEPT !.st = "done",
                       !.out = IF a.ok THEN "ok" ELSE "fail",
                       !.res = IF a.ok
                               THEN << v.attr.Name, ValueToStore(a.value) >>
                               ELSE << v.attr.Name, "" >>]]
  /\ UNCHANGED << ctl, chunk_data, chunk_attrs, chunk_src, open_sessions >>

\* as_completed in _fetch_attribute_values_parallel hands over a finished
\* value task
ValueCollect(i, j) ==
  /\ pc = "harvest"
  /\ i \in DOMAIN futures
  /\ futures[i].st = "values"
  /\ j \in DOMAIN futures[i].vt
  /\ futures[i].vt[j].st = "done"
  /\ Scheduled("ValueCollect", i, j)
  /\ LET f == futures[i]
         name == f.vt[j].res[1]
         value == f.vt[j].res[2]
     IN  futures' = [futures EXCEPT ![i] =
           [f EXCEPT !.vt[j].st = "collected",
                     !.attribute_values =
                        IF name # "" /\ name # NoneVal
                        THEN DictSet(f.attribute_values, name, value)
                        ELSE f.attribute_values]]
  /\ UNCHANGED << ctl, chunk_data, chunk_attrs, chunk_src, open_sessions >>

\* no name is reported for the merged attributes
KeysDropped(ef_attrs) == {}

\* ef_attrs.keys() as added by attribute_names.update
Keys(ef_attrs) == DOMAIN ef_attrs

\* all values are in: merge, leave the with block, return
FrameFinish(i) ==
  /\ pc = "harvest"
  /\ i \in DOMAIN futures
  /\ futures[i].st = "values"
  /\ \A j \in DOMAIN futures[i].vt : futures[i].vt[j].st = "collected"
  /\ Scheduled("FrameFinish", i, 0)
  /\ LET f == futures[i]
     IN  /\ futures' = [futures EXCEPT ![i] =
              Completes(
                [f EXCEPT !.st = "done",
                          !.ef_data = DictUpdate(f.ef_data, f.attribute_values),
                          !.attribute_names = Keys(f.attribute_values)])]
         /\ open_sessions' = CloseSession(open_sessions, f.session)
  /\ UNCHANGED << ctl, chunk_data, chunk_attrs, chunk_src >>

(* ---------------- _fetch_attributes_parallel ---------------- *)
\* where a record comes from: the frame, how its directory request ended,
\* the attribute descriptors and how each value was obtained
Source(f) ==
  [ ef |-> f.ef, dir |-> f.dir,
    attrs |-> [j \in DOMAIN f.vt |-> f.vt[j].attr],
    outs |-> [j \in DOMAIN f.vt |-> f.vt[j].out],
    res |-> [j \in DOMAIN f.vt |-> f.vt[j].res],
    doneAt |-> f.doneAt ]

\* the record of a frame whose directory request failed is dropped
HarvestedUnlessFailed(acc, f) ==
  IF f.dir = "fail" THEN acc ELSE Append(acc, f.ef_data)

\* ef_data, ef_attrs = future.result(); all_data.append(ef_data)
Harvested(acc, f) == Append(acc, f.ef_data)

\* the names of the task replace the names collected so far
NamesReplaced(acc, f) == f.attribute_names

\* all_attrs.update(ef_attrs)
NamesMerged(acc, f) == acc \cup f.attribute_names

\* the result of a future is taken without waiting for it
StartedOrCompleted(f) == f.st \in {"dir", "values", "done"}

\* as_completed yields a future once it has finished
Completed(f) == f.st = "done"

\* as_completed hands a finished frame task to the control thread
Collect(i) ==
  /\ pc = "harvest"
  /\ i \in DOMAIN futures
  /\ Completed(futures[i])
  /\ Scheduled("Collect", i, 0)
  /\ chunk_data' = Harvested(chunk_data, futures[i])
  /\ chunk_attrs' = NamesMerged(chunk_attrs, futures[i])
  /\ chunk_src' = Append(chunk_src, Source(futures[i]))
  /\ futures' = [futures EXCEPT ![i].st = "collected", ![i].takenAt = Clock]
  /\ UNCHANGED << ctl, open_sessions >>

\* elements that are already there are not added again
ExtendOnlyNew(all, chunk) ==
  all \o SelectSeq(chunk, LAMBDA r : \A k \in DOMAIN all : all[k] # r)

\* list.extend
Extend(all, chunk) == all \o chunk

\* the first finished frame task ends the harvest
BatchDoneAtFirst(fs) == \E i \in DOMAIN fs : fs[i].st = "collected"

\* the as_completed loop has handed over every future, and the with block
\* of the executor is left (shutdown(wait=True))
BatchDone(fs) == \A i \in DOMAIN fs : fs[i].st = "collected"

\* the executor is left and the batch is merged into the result
HarvestReturn ==
  /\ pc = "harvest"
  /\ BatchDone(futures)
  /\ all_data' = Extend(all_data, chunk_data)
  /\ all_attrs' = all_attrs \cup chunk_attrs
  /\ all_src' = Extend(all_src, chunk_src)
  /\ futures' = << >>
  /\ pc' = "loop"
  /\ UNCHANGED << site, creds, env, conv, run, processing_stack, cur,
                  chunk_data, chunk_attrs, chunk_src, open_sessions,
                  dispatched, qlog >>

Next ==
  \/ Call
  \/ Pop
  \/ ListResponse
  \/ Return
  \/ \E i \in DOMAIN futures : FrameStart(i)
  \/ \E i \in DOMAIN futures : DirResponse(i)
  \/ \E i \in DOMAIN futures : \E j \in DOMAIN futures[i].vt : ValueStart(i, j)
  \/ \E i \in DOMAIN futures : \E j \in DOMAIN futures[i].vt : ValueResponse(i, j)
  \/ \E i \in DOMAIN futures : \E j \in DOMAIN futures[i].vt : ValueCollect(i, j)
  \/ \E i \in DOMAIN futures : FrameFinish(i)
  \/ \E i \in DOMAIN futures : Collect(i)
  \/ HarvestReturn

Spec == Init /\ [][Next]_vars

\* every thread that can take a step takes one, and every request returns
\* (timeout=30 and timeout=10 bound each of them)
Live == Init /\ [][Next]_vars /\ WF_vars(Next)

\* runs that exercise the chunking: wider intervals on both time scales,
\* fewer frames
InitChunk ==
  /\ site = "TRINIDAD" /\ creds = TRUE
  /\ \E sc \in Scales, k \in 0..ChunkSpan :
       /\ env = [w |-> sc[1], budget |-> ChunkFrames, db |-> NoDb,
                zones |-> AllZones]
       /\ cur = << DT(sc[2], 0), DT(sc[2] + k * sc[1], 0) >>
  /\ processing_stack = << >>
  /\ InitCommon

SpecChunk == InitChunk /\ [][Next]_vars

LiveChunk == InitChunk /\ [][Next]_vars /\ WF_vars(Next)

\* sizes of the bulk of open frames that bring the database to the page cap;
\* the largest one makes one second of the database hold CHUNK_SIZE frames
DbBulks == { CHUNK_SIZE - 5, CHUNK_SIZE - 4, CHUNK_SIZE - 3 }

\* runs against a remote database that answers every list query with the
\* frames overlapping the queried range
InitDb ==
  /\ site = "TRINIDAD" /\ creds = TRUE
  /\ \E n \in DbBulks, at \in Seconds, k \in 1..MaxSec :
       /\ (n > CHUNK_SIZE - 4) => (at = 2)
       /\ env = [w |-> 0, budget |-> 0, db |-> [bulk |-> n, at |-> at],
                zones |-> AllZones]
       /\ cur = << DT(0, 0), DT(k * MICROS, 0) >>
  /\ processing_stack = << >>
  /\ InitCommon

SpecDb == InitDb /\ [][Next]_vars

LiveDb == InitDb /\ [][Next]_vars /\ WF_vars(Next)

\* runs that fill both thread pools, next to runs of small batches under
\* every schedule
InitPool ==
  /\ site = "TRINIDAD" /\ creds = TRUE
  /\ \E m \in { NoDb, [pool |-> MAX_WORKERS + PoolExtra] } :
       env = [w |-> 1, budget |-> MaxFrames, db |-> m, zones |-> AllZones]
  /\ cur = << DT(0, 0), DT(0, 0) >>
  /\ processing_stack = << >>
  /\ InitCommon

SpecPool == InitPool /\ [][Next]_vars

\* runs on hosts with and without the zone of the site in the timezone
\* database
InitTz ==
  /\ site = "TRINIDAD" /\ creds = TRUE
  /\ \E k \in 0..MaxSpan, z \in { AllZones, AllZones \ {SITES_PARAM[site].TIMEZONE} } :
       /\ env = [w |-> 1, budget |-> MaxFrames, db |-> NoDb, zones |-> z]
       /\ cur = << DT(MICROS - 2, 0), DT(MICROS - 2 + k, 0) >>
  /\ processing_stack = << >>
  /\ InitCommon

SpecTz == InitTz /\ [][Next]_vars

\* the size of the first list result of the scenario runs
FirstResult == CHUNK_SIZE + 500

\* runs whose first list query returns FirstResult items and whose later
\* ones stay below the page cap, over intervals of odd and even widths on
\* both time scales
InitScenario ==
  /\ site = "TRINIDAD" /\ creds = TRUE
  /\ \E sc \in Scales, k \in 1..(ChunkSpan + 1) :
       /\ env = [w |-> sc[1], budget |-> ChunkFrames,
                 db |-> [first |-> FirstResult], zones |-> AllZones]
       /\ cur = << DT(sc[2], 0), DT(sc[2] + k * sc[1], 0) >>
  /\ processing_stack = << >>
  /\ InitCommon

SpecScenario == InitScenario /\ [][Next]_vars

\* runs against a remote side that answers every list query with a full
\* page, next to runs of small batches
InitFull ==
  /\ site = "TRINIDAD" /\ creds = TRUE
  /\ \E sc \in Scales, k \in 0..ChunkSpan,
        m \in { NoDb, [full |-> CHUNK_SIZE], [full |-> CHUNK_SIZE + 1] } :
       /\ env = [w |-> sc[1], budget |-> ChunkFrames, db |-> m,
                 zones |-> AllZones]
       /\ cur = << DT(sc[2], 0), DT(sc[2] + k * sc[1], 0) >>
       /\ (m = NoDb) => (k <= 1)
  /\ processing_stack = << >>
  /\ InitCommon

SpecFull == InitFull /\ [][Next]_vars

\* the UTC offsets, in microseconds, of the aware datetimes a caller passes:
\* UTC and half an hour to either side
QueryOffsets == { 0 - 1800 * MICROS, 0, 1800 * MICROS }

\* runs whose caller passes aware datetimes at any of these offsets; an
\* aware datetime is left as it is by lines 166-169
InitOffsets ==
  /\ site = "TRINIDAD" /\ creds = TRUE
  /\ \E k \in 0..MaxSpan, o1 \in QueryOffsets, o2 \in QueryOffsets :
       /\ env = [w |-> 1, budget |-> ChunkFrames, db |-> NoDb,
                 zones |-> AllZones]
       /\ cur = << DT(MICROS - 2, o1), DT(MICROS - 2 + k, o2) >>
  /\ processing_stack = << >>
  /\ InitCommon

SpecOffsets == InitOffsets /\ [][Next]_vars

(* ---------------- old_fetch_eventframe.py: fetch_eventframes ---------------- *)
\* ef.get(key) on a frame descriptor
EfGet(ef, key) == IF key \in DOMAIN ef THEN ef[key] ELSE NoneVal

\* [ef for ef in items
\*    if not (ef.get('End Time') or '').startswith('9999-12-31')]
LegacyFilter(items) ==
  SelectSeq(items, LAMBDA ef :
    ~StartsWithSentinel(IF EfGet(ef, "End Time") = NoneVal THEN ""
                        ELSE EfGet(ef, "End Time")))

\* what fetch_value returns for an attribute: the fetched value or "" for
\* one behind a link, the embedded value otherwise
LegacyValues(attr) ==
  IF attr.Links.Value # NoneVal
  THEN { ValueToStore(x) : x \in FetchedValues } \cup {""}
  ELSE { ValueToStore(attr.Value) }

\* the rows the legacy fetch_attributes can return for a frame, each with
\* how the directory request ended: ef_row_data, with ef_row_data[key] = val
\* for every attribute of the directory when there is one
LegacyRows(ef, st) ==
  IF ef.Links.Attributes = NoneVal
  THEN { [row |-> ParseBasicInfo(ef, st), names |-> {}, dir |-> "nolink"] }
  ELSE { [row |-> ParseBasicInfo(ef, st), names |-> {}, dir |-> "fail"] } \cup
       UNION { { [row |-> DictUpdate(ParseBasicInfo(ef, st), vals),
                  names |-> DOMAIN vals,
                  dir |-> IF items = << >> THEN "empty" ELSE "items"] :
                 vals \in { v \in [ { items[j].Name : j \in DOMAIN items } ->
                                     UNION { LegacyValues(items[j]) : j \in DOMAIN items } ] :
                            \A j \in DOMAIN items : v[items[j].Name] \in LegacyValues(items[j]) } } :
               items \in DirItems(ef) }

\* the answers the environment may give to the list query of the legacy
\* loop: a failure or Items, within the frames it lets a run dispatch
LegacyListAnswers(iv) ==
  { [ok |-> FALSE, items |-> << >>] } \cup
  { [ok |-> TRUE, items |-> x] : x \in
      { y \in ListItems :
          IF Len(y) >= CHUNK_SIZE THEN Width(iv) > env.w
          ELSE /\ Len(LegacyFilter(y)) <= MaxBatch
               /\ dispatched + Len(LegacyFilter(y)) <= env.budget } }

InitLegacy ==
  /\ \E c \in { <<"TRINIDAD", TRUE>>, <<"EGYPT", FALSE>> } :
       site = c[1] /\ creds = c[2]
  /\ \E k \in 0..MaxSpan :
       /\ env = [w |-> 1, budget |-> MaxFrames, db |-> NoDb, zones |-> AllZones]
       /\ cur = << DT(MICROS - 2, 0), DT(MICROS - 2 + k, 0) >>
       /\ processing_stack = << cur >>
  /\ pc = "legacy_loop"
  /\ conv = NoConv
  /\ run = NoRun
  /\ all_data = << >> /\ all_attrs = {}
  /\ chunk_data = << >> /\ chunk_attrs = {}
  /\ futures = << >>
  /\ open_sessions = {}
  /\ dispatched = 0
  /\ qlog = << >>
  /\ chunk_src = << >> /\ all_src = << >>

\* start, end = stack.pop(); the session of the iteration is opened and the
\* list request is sent
LegacyPop ==
  /\ pc = "legacy_loop"
  /\ processing_stack # << >>
  /\ Len(qlog) < MaxQueries
  /\ cur' = processing_stack[Len(processing_stack)]
  /\ processing_stack' = Popped(processing_stack)
  /\ open_sessions' = open_sessions \cup {LIST_SESSION}
  /\ pc' = "legacy_list"
  /\ UNCHANGED << site, creds, env, conv, run, all_data, all_attrs, chunk_data,
                  chunk_attrs, futures, dispatched, qlog, chunk_src, all_src >>

\* the list request returns and the body of the iteration runs up to the
\* submission of the frame tasks
LegacyListResponse ==
  /\ pc = "legacy_list"
  /\ \E a \in LegacyListAnswers(cur) :
       LET items == IF a.ok THEN a.items ELSE << >>
           kept == LegacyFilter(items)
           d == IF ~a.ok THEN "empty"
                ELSE IF Len(items) >= CHUNK_SIZE THEN "split"
                ELSE IF items = << >> THEN "empty"
                ELSE "dispatch"
       IN  /\ qlog' = Append(qlog,
                [ iv |-> cur, ok |-> a.ok, n |-> Len(items), act |-> d,
                  removed_count |-> Len(items) - Len(kept),
                  batch |-> IF d = "dispatch" THEN kept ELSE << >> ])
           /\ IF d = "dispatch"
              THEN /\ futures' = [i \in 1..Len(kept) |-> NewTask(kept[i])]
                   /\ dispatched' = dispatched + Len(kept)
                   /\ pc' = "legacy_harvest"
                   /\ UNCHANGED << processing_stack, open_sessions >>
              ELSE /\ processing_stack' =
                        IF d = "split"
                        THEN PushHalves(processing_stack, cur[1], cur[2])
                        ELSE processing_stack
                   /\ open_sessions' = CloseSession(open_sessions, LIST_SESSION)
                   /\ pc' = "legacy_loop"
                   /\ UNCHANGED << futures, dispatched >>
  /\ UNCHANGED << site, creds, env, conv, run, cur, all_data, all_attrs, chunk_data,
                  chunk_attrs, chunk_src, all_src >>

\* a frame task runs the legacy fetch_attributes on the session of the
\* iteration and returns its row
LegacyTask(i) ==
  /\ pc = "legacy_harvest"
  /\ i \in DOMAIN futures
  /\ futures[i].st = "queued"
  /\ \E r \in LegacyRows(futures[i].ef, site) :
       futures' = [futures EXCEPT ![i] =
         Completes([futures[i] EXCEPT !.st = "done", !.ef_data = r.row,
                     !.attribute_names = r.names, !.dir = r.dir,
                     !.session = LIST_SESSION])]
  /\ UNCHANGED << ctl, chunk_data, chunk_attrs, chunk_src, open_sessions >>

\* row_data, attr_names = f.result(); all_data.append(row_data);
\* all_attrs.update(attr_names)
LegacyCollect(i) ==
  /\ pc = "legacy_harvest"
  /\ i \in DOMAIN futures
  /\ Completed(futures[i])
  /\ all_data' = Append(all_data, futures[i].ef_data)
  /\ all_attrs' = all_attrs \cup futures[i].attribute_names
  /\ all_src' = Append(all_src, Source(futures[i]))
  /\ futures' = [futures EXCEPT ![i].st = "collected", ![i].takenAt = Clock]
  /\ UNCHANGED << site, creds, env, conv, run, pc, processing_stack, cur,
                  chunk_data, chunk_attrs, open_sessions, dispatched, qlog,
                  chunk_src >>

\* both with blocks are left
LegacyHarvestDone ==
  /\ pc = "legacy_harvest"
  /\ BatchDone(futures)
  /\ futures' = << >>
  /\ open_sessions' = CloseSession(open_sessions, LIST_SESSION)
  /\ pc' = "legacy_loop"
  /\ UNCHANGED << site, creds, env, conv, run, processing_stack, cur, all_data,
                  all_attrs, chunk_data, chunk_attrs, dispatched, qlog,
                  chunk_src, all_src >>

\* return all_data, all_attrs
LegacyReturn ==
  /\ pc = "legacy_loop"
  /\ processing_stack = << >>
  /\ pc' = "legacy_returned"
  /\ UNCHANGED << site, creds, env, conv, run, processing_stack, cur, all_data,
                  all_attrs, chunk_data, chunk_attrs, futures, open_sessions,
                  dispatched, qlog, chunk_src, all_src >>

NextLegacy ==
  \/ LegacyPop
  \/ LegacyListResponse
  \/ \E i \in DOMAIN futures : LegacyTask(i)
  \/ \E i \in DOMAIN futures : LegacyCollect(i)
  \/ LegacyHarvestDone
  \/ LegacyReturn

SpecLegacy == InitLegacy /\ [][NextLegacy]_vars

(* ---------------- to_site_local called on its own ---------------- *)
\* the arguments: naive and aware datetimes, on and off the second, with
\* offsets (in seconds) of whole hours and of one second
LocalInstants == { n * MICROS + d : n \in Seconds, d \in {0, 1} }
LocalOffsets == { h * 3600 : h \in -MaxOffHours..MaxOffHours } \cup {-1, 1}
LocalInputs ==
  { Naive(t) : t \in LocalInstants } \cup
  { DT(t, off) : t \in LocalInstants, off \in LocalOffsets }

InitLocal ==
  /\ site \in DOMAIN SITES_PARAM /\ creds = TRUE
  /\ \E z \in { AllZones, AllZones \ {SITES_PARAM[site].TIMEZONE} } :
       env = [w |-> 1, budget |-> 0, db |-> NoDb, zones |-> z]
  /\ \E d \in LocalInputs : conv = [utc_dt |-> d, out |-> Raised("none")]
  /\ run = NoRun
  /\ pc = "to_site_local"
  /\ cur = << DT(0, 0), DT(0, 0) >>
  /\ processing_stack = << >>
  /\ all_data = << >> /\ all_attrs = {}
  /\ chunk_data = << >> /\ chunk_attrs = {}
  /\ futures = << >>
  /\ open_sessions = {}
  /\ dispatched = 0
  /\ qlog = << >>
  /\ chunk_src = << >> /\ all_src = << >>

\* the call returns or raises
ToSiteLocalCall ==
  /\ pc = "to_site_local"
  /\ conv' = [conv EXCEPT !.out = to_site_local(conv.utc_dt, site)]
  /\ pc' = "to_site_local_done"
  /\ UNCHANGED << site, creds, env, run, processing_stack, cur, all_data,
                  all_attrs, chunk_data, chunk_attrs, futures, open_sessions,
                  dispatched, qlog, chunk_src, all_src >>

NextLocal == ToSiteLocalCall

SpecLocal == InitLocal /\ [][NextLocal]_vars

(* ---------------- etl.py: main, command "run" ---------------- *)
\* the clock of the polling loop counts half seconds
TICKS == 2

\* sites_run of the configuration
SITES_RUN == << "TRINIDAD", "EGYPT" >>

max_db_retries == 3

\* timedelta(hours=360), timer.sleep(5) and timer.sleep(3600) in ticks
LOOKBACK == 360 * 3600 * TICKS
RETRY_WAIT == 5 * TICKS
CYCLE_WAIT == 3600 * TICKS

\* a row of etl_run_tracking, and its absence; the result of
\* get_last_run_time is one of the two
NoCheckpoint == << >>
Checkpoint(t) == << t >>

\* the next whole second
WholeSecondUp(t) == t + ((TICKS - (t % TICKS)) % TICKS)

\* .replace(microsecond=0)
WholeSecond(t) == t - (t % TICKS)

\* lines 743-749: the start of the fetch window
StartTime(last_run, current_run_time) ==
  IF last_run # NoCheckpoint
  THEN WholeSecond(last_run[1])
  ELSE WholeSecond(current_run_time - LOOKBACK)

\* what happened to a site in the current cycle
NewVisit(s) ==
  [ site |-> s, attempts |-> 0, connected |-> FALSE, last_run |-> NoCheckpoint,
    start_time |-> << >>, window |-> << >>, fetch |-> "none",
    insert |-> "none",
    update |-> "none", raised |-> FALSE, closed |-> FALSE ]

\* the checkpoints a run can find in the table: none, or one left by an
\* earlier run, off the whole second
OldCheckpoints == { NoCheckpoint, Checkpoint(0 - 3) }

InitRun ==
  /\ site = "TRINIDAD" /\ creds = TRUE
  /\ env = [w |-> 1, budget |-> 0, db |-> NoDb, zones |-> AllZones]
  /\ conv = NoConv
  /\ \E t0 \in {0, 1}, tb \in [ {"TRINIDAD", "EGYPT"} -> OldCheckpoints ] :
       run = [ pc |-> "cycle", now |-> t0, current_run_time |-> 0,
               cycle |-> 1, idx |-> 0, conn |-> FALSE, table |-> tb,
               stored_end |-> [s \in DOMAIN tb |-> << >>],
               v |-> NewVisit(""), done |-> << >> ]
  /\ pc = "etl"
  /\ cur = << DT(0, 0), DT(0, 0) >>
  /\ processing_stack = << >>
  /\ all_data = << >> /\ all_attrs = {}
  /\ chunk_data = << >> /\ chunk_attrs = {}
  /\ futures = << >>
  /\ open_sessions = {}
  /\ dispatched = 0
  /\ qlog = << >>
  /\ chunk_src = << >> /\ all_src = << >>

RunUnchanged ==
  UNCHANGED << site, creds, env, conv, pc, processing_stack, cur, all_data,
               all_attrs, chunk_data, chunk_attrs, futures, open_sessions,
               dispatched, qlog, chunk_src, all_src >>

\* the body of the for loop is over for the current site: the next site, or
\* the wait at the end of the cycle
AfterVisit(r) ==
  LET d == Append(r.done, r.v)
  IN  IF r.idx < Len(SITES_RUN)
      THEN [r EXCEPT !.done = d, !.idx = r.idx + 1,
                     !.v = NewVisit(SITES_RUN[r.idx + 1]), !.pc = "connect"]
      ELSE [r EXCEPT !.done = d, !.pc = "sleep"]

\* lines 710-715: current_run_time is taken and the for loop is entered
RunCycle ==
  /\ run.pc = "cycle"
  /\ run' = [run EXCEPT !.current_run_time = run.now, !.idx = 1,
                         !.v = NewVisit(SITES_RUN[1]), !.done = << >>,
                         !.pc = "connect"]
  /\ RunUnchanged

\* one more attempt is made after the last one
RetryAfterLast(db_attempt) == db_attempt <= max_db_retries

\* if db_attempt < max_db_retries
RetryLeft(db_attempt) == db_attempt < max_db_retries

\* lines 718-735: one pass of the retry loop around get_db_connection
RunConnect ==
  /\ run.pc = "connect"
  /\ \E ok \in BOOLEAN :
       LET db_attempt == run.v.attempts + 1
       IN  run' =
             IF ok
             THEN [run EXCEPT !.v.attempts = db_attempt, !.v.connected = TRUE,
                              !.conn = TRUE, !.pc = "read"]
             ELSE IF RetryLeft(db_attempt)
             THEN [run EXCEPT !.v.attempts = db_attempt,
                              !.now = @ + RETRY_WAIT]
             ELSE AfterVisit([run EXCEPT !.v.attempts = db_attempt])
  /\ RunUnchanged

\* lines 741-749 with get_last_run_time (lines 163-190), which returns None
\* when its query fails
RunRead ==
  /\ run.pc = "read"
  /\ \E ok \in BOOLEAN :
       LET last_run == IF ok THEN run.table[run.v.site] ELSE NoCheckpoint
       IN  run' = [run EXCEPT !.v.last_run = last_run,
                              !.v.start_time =
                                 << StartTime(last_run, run.current_run_time) >>,
                              !.pc = "fetch"]
  /\ RunUnchanged

\* line 752: fetch_eventframes(site, start_time) raises, or returns no
\* record, or returns records; its end_time is datetime.now() at the call
RunFetch ==
  /\ run.pc = "fetch"
  /\ \E out \in {"raise", "empty", "rows"}, d \in {0, 1} :
       LET t == run.now + d
       IN  run' =
             IF out = "raise"
             THEN [run EXCEPT !.now = t, !.v.fetch = out, !.v.raised = TRUE,
                              !.pc = "close"]
             ELSE [run EXCEPT !.now = t, !.v.fetch = out,
                              !.v.window = << run.v.start_time[1], t >>,
                              !.pc = IF out = "rows" THEN "insert" ELSE "update"]
  /\ RunUnchanged

\* lines 754-757: insert_eventframes returns or raises
RunInsert ==
  /\ run.pc = "insert"
  /\ \E ok \in BOOLEAN :
       run' = IF ok
              THEN [run EXCEPT !.v.insert = "ok", !.pc = "update"]
              ELSE [run EXCEPT !.v.insert = "raise", !.v.raised = TRUE,
                               !.pc = "close"]
  /\ RunUnchanged

\* the time of the call is stored
RunTimeNow(r) == r.now

\* the run_time argument of line 762
RunTime(r) == r.current_run_time

\* line 762 with update_last_run_time (lines 192-220), which swallows the
\* failure of its MERGE
RunUpdate ==
  /\ run.pc = "update"
  /\ \E ok \in BOOLEAN :
       run' = IF ok
              THEN [run EXCEPT !.table[run.v.site] = Checkpoint(RunTime(run)),
                               !.stored_end[run.v.site] = << run.v.window[2] >>,
                               !.v.update = "ok", !.pc = "close"]
              ELSE [run EXCEPT !.v.update = "fail", !.pc = "close"]
  /\ RunUnchanged

\* the connection is left as it is
ConnLeftOpen(c) == c

\* conn.close()
ConnClosed(c) == FALSE

\* lines 764-775: the except branch has printed, if it was taken; the
\* finally branch closes the connection
RunClose ==
  /\ run.pc = "close"
  /\ run' = AfterVisit([run EXCEPT !.conn = ConnClosed(run.conn),
                                    !.v.closed = TRUE])
  /\ RunUnchanged

\* lines 777-778: the wait between two cycles
RunSleep ==
  /\ run.pc = "sleep"
  /\ run.cycle < MaxCycles
  /\ run' = [run EXCEPT !.now = @ + CYCLE_WAIT, !.cycle = @ + 1,
                         !.pc = "cycle"]
  /\ RunUnchanged

\* lines 780-782: KeyboardInterrupt passes the handlers of Exception, the
\* finally branch closes an open connection, and the loop is left
RunInterrupt ==
  /\ run.pc \in {"connect", "read", "fetch", "insert", "update", "close",
                 "sleep"}
  /\ run' = [run EXCEPT !.conn = FALSE, !.pc = "stopped"]
  /\ RunUnchanged

NextRun ==
  \/ RunCycle
  \/ RunConnect
  \/ RunRead
  \/ RunFetch
  \/ RunInsert
  \/ RunUpdate
  \/ RunClose
  \/ RunSleep
  \/ RunInterrupt

SpecRun == InitRun /\ [][NextRun]_vars

TypeOK ==
  /\ pc \in {"call", "loop", "list", "harvest", "returned", "raised"}
  /\ Len(all_data) = Len(all_src)
  /\ Len(chunk_data) = Len(chunk_src)
  /\ (pc = "loop" /\ processing_stack # << >> /\ env.db = NoDb) => Len(qlog) < MaxQueries

(* ======================= the claims ======================= *)

\* the tasks that have a request in flight on session s
Requesters(s) ==
  (IF pc = "list" /\ s = LIST_SESSION THEN { <<"control", 0, 0>> } ELSE {})
  \cup { <<"frame", i, 0>> : i \in
           { i \in DOMAIN futures :
               futures[i].st = "dir" /\ futures[i].session = s } }
  \cup UNION { { <<"value", i, j>> : j \in
                   { j \in DOMAIN futures[i].vt :
                       /\ futures[i].vt[j].st = "get"
                       /\ futures[i].vt[j].session = s } } :
               i \in DOMAIN futures }

\* C1: at every moment every open session has at most one task (control
\* thread, frame task or attribute-value task) with a request in flight on it
C1_SessionUsedByOneTask ==
  \A s \in open_sessions : Cardinality(Requesters(s)) <= 1

\* C2: no record of the output (and no task of a batch) comes from a frame
\* whose EndTime begins with 9999-12-31; a run of one list query that
\* returned 3 frames, one of them open, returns exactly 2 records
C2_NoOpenFrameInOutput ==
  /\ \A k \in DOMAIN all_data :
       /\ ~IsOpen(all_src[k].ef)
       /\ ~StartsWithSentinel(all_data[k]["End Time UTC"])
  /\ \A k \in DOMAIN chunk_data : ~IsOpen(chunk_src[k].ef)
  /\ \A i \in DOMAIN futures : ~IsOpen(futures[i].ef)
  /\ ( /\ pc = "returned" /\ Len(qlog) = 1
       /\ qlog[1].n = 3 /\ qlog[1].removed_count = 1 )
     => Len(all_data) = 2

C2_Witness ==
  /\ pc = "returned" /\ Len(qlog) = 1
  /\ qlog[1].n = 3 /\ qlog[1].removed_count = 1
  /\ Len(all_data) = 2

\* m is start + (end - start) / 2 with the quotient rounded half to even
IsMidpoint(start, end, m) ==
  LET d == end.t - start.t
      h == m.t - start.t
  IN  IF d % 2 = 0 THEN 2 * h = d
      ELSE (2 * h = d + 1 \/ 2 * h = d - 1) /\ h % 2 = 0

Ids(efs) == { efs[i].Id : i \in DOMAIN efs }

\* the first list query of the run met the page cap; no later one did
FirstSplit == qlog # << >> /\ qlog[1].act = "split"
NoLaterSplit == \A k \in 2..Len(qlog) : qlog[k].act # "split"

\* the uncapped list result of the database for list query k of the run
Uncapped(k) == DbMatch(env.db, FormatZ(qlog[k].iv[1]), FormatZ(qlog[k].iv[2]))

\* a finished run that split once: its three list queries are the interval
\* and its two halves, the list results of the halves together hold the
\* frames of the uncapped list result of the interval, none missing, and
\* the frames emitted are those of them that a run emits (the ones not
\* open)
SplitOnceEqualsUnsplit ==
  (pc = "returned" /\ FirstSplit /\ NoLaterSplit) =>
     /\ Len(qlog) = 3
     /\ \E m \in { qlog[2].iv[2] } :
          /\ IsMidpoint(qlog[1].iv[1], qlog[1].iv[2], m)
          /\ qlog[2].iv = << qlog[1].iv[1], m >>
          /\ qlog[3].iv = << m, qlog[1].iv[2] >>
     /\ Ids(Uncapped(2)) \cup Ids(Uncapped(3)) = Ids(Uncapped(1))
     /\ { all_src[k].ef.Id : k \in DOMAIN all_data } = Ids(FilterOpen(Uncapped(1)))
     /\ Len(all_data) = Len(all_src)

Splits == { k \in DOMAIN qlog : qlog[k].act = "split" }

\* the run is one where list queries over intervals no wider than w > 0
\* stay below the page cap
NarrowBelowCap ==
  /\ env.w > 0
  /\ \A k \in DOMAIN qlog : Width(qlog[k].iv) <= env.w => qlog[k].n < CHUNK_SIZE

\* right after a split the two intervals on top of the work-stack are
\* narrower than the interval that was split
HalvesNarrower ==
  (pc = "loop" /\ qlog # << >> /\ qlog[Len(qlog)].act = "split") =>
     LET n == Len(processing_stack)
     IN  /\ n >= 2
         /\ Width(processing_stack[n]) < Width(qlog[Len(qlog)].iv)
         /\ Width(processing_stack[n - 1]) < Width(qlog[Len(qlog)].iv)

\* C5: when every list query over an interval no wider than w returns fewer
\* than CHUNK_SIZE items (w positive), every split leaves narrower
\* intervals, and the work-stack eventually is empty and the function has
\* returned, with every dispatched frame in the accumulated records
C5_StackEmptiesAndReturns ==
  /\ [] (NarrowBelowCap /\ HalvesNarrower)
  /\ <>( /\ pc = "returned" /\ processing_stack = << >>
         /\ futures = << >> /\ Len(all_data) = dispatched )

C5_Witness ==
  /\ pc = "returned" /\ processing_stack = << >>
  /\ Cardinality(Splits) >= 3
  /\ all_data # << >>

\* C6: when the value fetch of one attribute of a frame fails, the record of
\* the frame has the name of the attribute as a key with the value "", every
\* other attribute keeps its fetched value, the core fields are those of the
\* frame descriptor, and a frame with two attributes has a record of 10
\* fields
C6_ValueFailureIsolated ==
  \A k \in DOMAIN all_data :
    LET src == all_src[k]
        rec == all_data[k]
    IN  \A j \in DOMAIN src.outs : src.outs[j] = "fail" =>
          /\ src.attrs[j].Name \in DOMAIN rec
          /\ rec[src.attrs[j].Name] = ""
          /\ \A i \in DOMAIN src.outs \ {j} :
               src.outs[i] = "ok" => rec[src.attrs[i].Name] = src.res[i][2]
          /\ \A c \in CoreKeys : rec[c] = ParseBasicInfo(src.ef, site)[c]
          /\ Len(src.attrs) = 2 => Cardinality(DOMAIN rec) = 10

\* the names of the attributes of the records whose directory was fetched
DirectoryNames ==
  UNION { { all_src[k].attrs[j].Name : j \in DOMAIN all_src[k].attrs } :
            k \in { x \in DOMAIN all_src : all_src[x].dir = "items" } }

\* a frame task whose directory request failed holds the core fields only
\* and no attribute names, and so does its record
DirFailureCoreOnly ==
  /\ \A i \in DOMAIN futures : futures[i].dir = "fail" =>
       /\ futures[i].ef_data = ParseBasicInfo(futures[i].ef, site)
       /\ futures[i].attribute_names = {}
  /\ \A k \in DOMAIN all_data : all_src[k].dir = "fail" =>
       /\ all_data[k] = ParseBasicInfo(all_src[k].ef, site)
       /\ DOMAIN all_data[k] = CoreKeys
       /\ Cardinality(DOMAIN all_data[k]) = 8
  /\ all_attrs \subseteq DirectoryNames

\* C7: a frame whose attribute-directory request fails yields one record of
\* exactly the eight core fields and contributes no attribute names, and
\* the batch it belongs to still finishes with one record for each of its
\* frames
C7_DirectoryFailureCoreOnly ==
  /\ [] DirFailureCoreOnly
  /\ (pc = "harvest" /\ \E i \in DOMAIN futures : futures[i].dir = "fail")
       ~> ( /\ pc = "loop" /\ qlog # << >>
            /\ Len(chunk_data) = Len(qlog[Len(qlog)].batch)
            /\ \E k \in DOMAIN chunk_src : chunk_src[k].dir = "fail" )

C7_Witness ==
  /\ pc = "returned" /\ Len(qlog) = 1 /\ Len(all_data) = 2
  /\ \E k \in DOMAIN all_src : all_src[k].dir = "fail"
  /\ \E k \in DOMAIN all_src :
       all_src[k].dir = "items" /\ DOMAIN all_data[k] # CoreKeys

\* C8: the only exception that leaves fetch_eventframes is the one of the
\* missing credentials, raised before any request is sent; a run that
\* entered the loop returns, whatever requests fail
C8_NoFailureRaises ==
  /\ [](pc = "raised" =>
          AuthFails(site, creds) /\ qlog = << >> /\ dispatched = 0)
  /\ (pc = "loop") ~> (pc = "returned")

C8_Witness ==
  /\ pc = "returned"
  /\ \E k \in DOMAIN qlog : ~qlog[k].ok
  /\ \E k \in DOMAIN all_src : all_src[k].dir = "fail"
  /\ \E k \in DOMAIN all_src : \E j \in DOMAIN all_src[k].outs :
       all_src[k].outs[j] = "fail"

\* the non-open frames in the list results of the first k list queries that
\* did not split
RECURSIVE NonOpenUnsplit(_)
NonOpenUnsplit(k) ==
  IF k = 0 THEN 0
  ELSE NonOpenUnsplit(k - 1) +
       (IF qlog[k].act = "split" THEN 0 ELSE qlog[k].n - qlog[k].removed_count)

\* C9: every batch yields exactly one record per frame: the records
\* returned, and at every moment the records accumulated plus the frames of
\* the running batch, are as many as the non-open frames in the list results
\* of the intervals that did not split
C9_OneRecordPerFrame ==
  /\ Len(all_data) + (IF pc = "harvest" THEN Len(futures) ELSE 0)
       = NonOpenUnsplit(Len(qlog))
  /\ pc = "harvest" =>
       Len(chunk_data) =
         Cardinality({ i \in DOMAIN futures : futures[i].st = "collected" })
  /\ pc = "returned" => Len(all_data) = NonOpenUnsplit(Len(qlog))

C9_Witness ==
  /\ pc = "returned" /\ Len(all_data) = 2 /\ NonOpenUnsplit(Len(qlog)) = 2
  /\ \E k \in DOMAIN all_src : all_src[k].dir = "fail"
  /\ \E k \in DOMAIN all_src : \E j \in DOMAIN all_src[k].outs :
       all_src[k].outs[j] = "fail"

\* the list queries that did not split and returned the non-open frame id
ReturnedBy(id) ==
  { k \in DOMAIN qlog : \E i \in DOMAIN qlog[k].batch : qlog[k].batch[i].Id = id }

\* the records of the output that come from frame id
RecordsOf(id) == { k \in DOMAIN all_data : all_src[k].ef.Id = id }

LiveTasks ==
  { <<i, 0>> : i \in { x \in DOMAIN futures : futures[x].st \in {"dir", "values"} } }
  \cup UNION { { <<i, j>> : j \in { y \in DOMAIN futures[i].vt :
                              futures[i].vt[y].st = "get" } } :
               i \in DOMAIN futures }

\* C11: intervals are processed one at a time: the control thread leaves
\* the harvest of a batch only when every frame task, with all its
\* attribute-value tasks, has finished; while a list query is in flight or
\* about to be issued no task of a batch exists; and no step taken during
\* the harvest (the only time worker threads run) touches the work-stack
C11_OneIntervalAtATime ==
  [][ /\ (pc = "harvest" /\ pc' # "harvest") =>
            /\ LiveTasks = {}
            /\ \A i \in DOMAIN futures :
                 /\ futures[i].st = "collected"
                 /\ \A j \in DOMAIN futures[i].vt :
                      futures[i].vt[j].st = "collected"
      /\ (pc' \in {"loop", "list", "returned"}) => futures' = << >>
      /\ (pc = "harvest" /\ pc' = "harvest") =>
            /\ processing_stack' = processing_stack
            /\ cur' = cur /\ qlog' = qlog ]_vars

C11_Witness ==
  /\ pc = "list"
  /\ dispatched >= 2
  /\ \E k \in DOMAIN qlog : qlog[k].act = "dispatch" /\ Len(qlog[k].batch) = 2
  /\ futures = << >>

\* C12: at most MAX_WORKERS (20) frame tasks are running, each of them
\* has at most ATTR_MAX_WORKERS (5) value requests in flight, and at most
\* 100 value requests are in flight in all
C12_PoolBounds ==
  /\ MAX_WORKERS = 20 /\ ATTR_MAX_WORKERS = 5
  /\ Cardinality(RunningFrames) <= 20
  /\ \A i \in DOMAIN futures : Cardinality(RunningValues(i)) <= 5
  /\ Cardinality(ValuesIn("get")) <= 100
  /\ Cardinality(LiveTasks) <= 120

C12_Witness ==
  /\ Len(futures) > 20
  /\ Cardinality(RunningFrames) = 20
  /\ futures[Len(futures)].st = "queued"
  /\ Cardinality(ValuesIn("get")) = 100
  /\ \A i \in RunningFrames :
       /\ Len(futures[i].vt) > 5
       /\ Cardinality(RunningValues(i)) = 5
       /\ futures[i].vt[Len(futures[i].vt)].st = "queued"

\* the frame tasks of the running batch whose result the control thread has
\* taken
Collected == FramesIn("collected")

\* the accumulators of the running batch hold the record of every collected
\* frame task once, and the attribute names of all of them
BatchMergeExact ==
  pc = "harvest" =>
    /\ Len(chunk_data) = Cardinality(Collected)
    /\ \A i \in Collected :
         Cardinality({ k \in DOMAIN chunk_data : chunk_data[k] = futures[i].ef_data })
           = Cardinality({ j \in Collected : futures[j].ef_data = futures[i].ef_data })
    /\ chunk_attrs = UNION { futures[i].attribute_names : i \in Collected }

\* a step of a worker thread: the harvest goes on and no result is handed
\* to the control thread
WorkerStep ==
  /\ pc = "harvest" /\ pc' = "harvest"
  /\ \A i \in DOMAIN futures : futures[i].st = "done" => futures'[i].st = "done"

\* C13: for every interleaving of task completions the merge loses and
\* duplicates no record and no attribute name; the accumulators of the batch
\* and of the run are written by steps of the control thread only, and the
\* end of the harvest appends the records of the batch to the output and
\* adds its names to the name set
C13_MergeSafe ==
  /\ [] BatchMergeExact
  /\ [][ /\ WorkerStep =>
              UNCHANGED << chunk_data, chunk_attrs, all_data, all_attrs >>
         /\ (pc = "harvest" /\ pc' # "harvest") =>
              /\ all_data' = all_data \o chunk_data
              /\ all_attrs' = all_attrs \cup chunk_attrs
              /\ Len(chunk_data) = Len(futures) ]_vars

C13_Witness ==
  /\ pc = "returned" /\ Len(qlog) = 1 /\ Len(all_data) = 2
  /\ qlog[1].batch[1].Id = all_src[2].ef.Id
  /\ qlog[1].batch[2].Id = all_src[1].ef.Id
  /\ all_src[1].dir = "items" /\ all_src[2].dir = "items"
  /\ Cardinality(all_attrs) = 2

\* C14: a frame task that has returned, on any of its exit paths, has left
\* no session open; the open sessions are the list session and those of the
\* frame tasks between their directory request and their return; once
\* fetch_eventframes has returned or raised no session is open
C14_SessionsClosed ==
  /\ \A i \in DOMAIN futures :
       futures[i].st \in {"done", "collected"} =>
         /\ i \notin open_sessions
         /\ futures[i].session \notin open_sessions
  /\ open_sessions \subseteq
       {LIST_SESSION} \cup
       { futures[i].session : i \in FramesIn("dir") \cup FramesIn("values") }
  /\ pc \in {"returned", "raised"} => open_sessions = {}

C14_Witness ==
  /\ pc = "returned" /\ open_sessions = {}
  /\ \E k \in DOMAIN all_src : all_src[k].dir = "fail"
  /\ \E k \in DOMAIN all_src : all_src[k].dir = "items"

\* C15: a call with a site that is not in the registry ends in an error
\* raised to the caller, not in a return, and sends no request
C15_UnknownSiteRaises ==
  (site \notin DOMAIN SITES_PARAM /\ pc # "call") =>
    /\ pc = "raised"
    /\ qlog = << >> /\ dispatched = 0 /\ open_sessions = {}

\* the site authenticates with BASIC and the user name or the password is
\* not in the environment
BasicWithoutCreds ==
  /\ site \in DOMAIN SITES_PARAM
  /\ SITES_PARAM[site].AUTH = "BASIC"
  /\ ~creds

\* C16: for a BASIC site without user name or password the call raises; no
\* session has been opened, no request sent, and nothing is returned; the
\* call raises in no other case
C16_MissingCredsRaiseFirst ==
  /\ (BasicWithoutCreds /\ pc # "call") =>
       /\ pc = "raised"
       /\ open_sessions = {} /\ qlog = << >> /\ dispatched = 0
       /\ futures = << >>
       /\ all_data = << >> /\ all_attrs = {}
  /\ pc = "raised" => BasicWithoutCreds

C16_Witness ==
  /\ site = "TRINIDAD" /\ ~creds
  /\ pc = "raised"
  /\ processing_stack # << >>

\* the timezone database of the host lacks the zone of the site
ZoneMissing ==
  /\ site \in DOMAIN SITES_PARAM
  /\ ~ZoneInfoFound(SITES_PARAM[site].TIMEZONE)

\* C17: when the timezone database lacks the zone of the site, the fetch
\* does not return records: a call that found frames ends in an error
C17_MissingZoneIsFatal ==
  ZoneMissing => ~(pc = "returned" /\ all_data # << >>)

\* the argument of the call is aware and its UTC offset is zero
AwareUtc(d) == "off" \in DOMAIN d /\ d.off = 0

\* C18: to_site_local raises ValueError for every naive argument and for
\* every aware argument whose UTC offset is not zero, whatever the timezone
\* database holds; for an aware argument with offset zero it raises no
\* ValueError, and with the zone of the site in the database it returns the
\* same instant at the offset of the zone
C18_ToSiteLocalRejects ==
  pc = "to_site_local_done" =>
    /\ ~AwareUtc(conv.utc_dt) => conv.out.err = "ValueError"
    /\ AwareUtc(conv.utc_dt) => conv.out.err # "ValueError"
    /\ (AwareUtc(conv.utc_dt) /\ ~ZoneMissing) =>
         /\ conv.out.err = ""
         /\ conv.out.dt.t = conv.utc_dt.t
         /\ conv.out.dt.off = ZoneOffset(SITES_PARAM[site].TIMEZONE)

C18_Witness ==
  /\ pc = "to_site_local_done"
  /\ ~ZoneMissing
  /\ "off" \in DOMAIN conv.utc_dt
  /\ conv.utc_dt.off = 3600
  /\ conv.out.err = "ValueError"

\* the whole seconds that lie in the interval
WholeSecondsOf(iv) ==
  { n \in FormatZ(iv[1])..FormatZ(iv[2]) :
      iv[1].t <= n * MICROS /\ n * MICROS <= iv[2].t }

\* second n lies in the range startTime..endTime that the list query of the
\* interval sends
InQueryRange(n, iv) == FormatZ(iv[1]) <= n /\ n <= FormatZ(iv[2])

\* C19: right after a bisection the two halves on the work-stack share the
\* midpoint as their only bound, span the interval that was split, and every
\* whole second of that interval (the midpoint included) is in the query
\* range of exactly one of them
C19_HalvesPartition ==
  (pc = "loop" /\ qlog # << >> /\ qlog[Len(qlog)].act = "split") =>
     LET n == Len(processing_stack)
         lower == processing_stack[n]
         upper == processing_stack[n - 1]
         iv == qlog[Len(qlog)].iv
     IN  /\ lower[1] = iv[1] /\ lower[2] = upper[1] /\ upper[2] = iv[2]
         /\ \A t \in WholeSecondsOf(iv) :
              Cardinality({ h \in {lower, upper} : InQueryRange(t, h) }) = 1

\* the run so far made its list queries, in this order, for the interval
\* of the call, for its lower half and for its upper half, T1 being the
\* bound the halves share
ThreeQueries(T0, T1, T2) ==
  /\ Len(qlog) <= 3
  /\ qlog # << >> => qlog[1].iv = << T0, T2 >>
  /\ Len(qlog) >= 2 => qlog[2].iv = << T0, T1 >>
  /\ Len(qlog) >= 3 => qlog[3].iv = << T1, T2 >>
  /\ pc = "returned" => Len(qlog) = 3

\* the first list query of the run returned FirstResult items and the later
\* ones fewer than CHUNK_SIZE
ScenarioHolds ==
  /\ qlog # << >>
  /\ qlog[1].n = CHUNK_SIZE + 500
  /\ \A k \in 2..Len(qlog) : qlog[k].n < CHUNK_SIZE

\* C20, as stated: T1 is the exact midpoint, T1 - T0 = T2 - T1
C20_ExactMidpoint ==
  (ScenarioHolds /\ Len(qlog) >= 2) =>
     LET T0 == qlog[1].iv[1]
         T2 == qlog[1].iv[2]
         T1 == qlog[2].iv[2]
     IN  /\ ThreeQueries(T0, T1, T2)
         /\ Splits = {1}
         /\ 2 * T1.t = T0.t + T2.t

\* C20, amended: when the first list query returns 1500 items and each half
\* fewer than 1000, the run splits once and makes exactly three list
\* queries, [T0,T2], then [T0,T1], then [T1,T2], where T1 is
\* T0 + (T2 - T0) / 2 with the quotient rounded half to even to a whole
\* microsecond (the exact midpoint when the width is an even number of
\* microseconds)
C20_OneBisection ==
  ScenarioHolds =>
     /\ Splits = {1}
     /\ Len(qlog) >= 2 =>
          LET T0 == qlog[1].iv[1]
              T2 == qlog[1].iv[2]
              T1 == qlog[2].iv[2]
          IN  /\ ThreeQueries(T0, T1, T2)
              /\ IsMidpoint(T0, T2, T1)
              /\ (Width(qlog[1].iv) % 2 = 0) => 2 * T1.t = T0.t + T2.t

C20_Witness ==
  /\ pc = "returned" /\ ScenarioHolds /\ Len(qlog) = 3
  /\ Width(qlog[1].iv) = 5
  /\ qlog[2].iv[2].t = qlog[1].iv[1].t + 2
  /\ all_data # << >>

\* the record has the eight core keys, and each other key is the name of
\* an attribute that the directory of the frame listed
CoreAndListedKeys(rec, src) ==
  /\ CoreKeys \subseteq DOMAIN rec
  /\ \A key \in DOMAIN rec \ CoreKeys :
       /\ src.dir = "items"
       /\ \E j \in DOMAIN src.attrs : src.attrs[j].Name = key

\* C21: every record of the output, and every record a finished frame task
\* hands over, has all eight core keys, and has an attribute key only if the
\* attribute directory of its frame listed an attribute of that name
C21_CoreKeysAndSparseAttrs ==
  /\ Cardinality(CoreKeys) = 8
  /\ \A k \in DOMAIN all_data : CoreAndListedKeys(all_data[k], all_src[k])
  /\ \A k \in DOMAIN chunk_data : CoreAndListedKeys(chunk_data[k], chunk_src[k])
  /\ \A i \in FramesIn("done") :
       CoreAndListedKeys(futures[i].ef_data, Source(futures[i]))

C21_Witness ==
  /\ pc = "returned"
  /\ \E k \in DOMAIN all_data :
       /\ DOMAIN all_data[k] = CoreKeys \cup {"A", "B"}
  /\ \E k \in DOMAIN all_data :
       /\ all_src[k].dir = "items"
       /\ DOMAIN all_data[k] = CoreKeys

\* the frame descriptor carries no link to an attribute directory
Linkless(ef) == ef.Links.Attributes = NoneVal

\* a frame task of a frame without link never has a session or a request
\* in flight and has no value tasks; once it has run it is done with the
\* core fields only and no attribute names
LinklessTaskCoreOnly ==
  \A i \in DOMAIN futures : Linkless(futures[i].ef) =>
    /\ futures[i].st \in {"queued", "done", "collected"}
    /\ futures[i].session \notin open_sessions
    /\ futures[i].vt = << >>
    /\ futures[i].st # "queued" =>
         /\ futures[i].dir = "nolink"
         /\ futures[i].ef_data = ParseBasicInfo(futures[i].ef, site)
         /\ DOMAIN futures[i].ef_data = CoreKeys
         /\ futures[i].attribute_names = {}

\* C22: the frame task of a frame without attribute-directory link returns,
\* in the step that starts it, the record of the core fields only and an
\* empty attribute-name set; it opens no session and sends no request, and
\* its record reaches the output
C22_NoLinkCoreOnly ==
  /\ [] LinklessTaskCoreOnly
  /\ [] (\A k \in DOMAIN all_data : Linkless(all_src[k].ef) =>
           /\ all_src[k].dir = "nolink"
           /\ all_data[k] = ParseBasicInfo(all_src[k].ef, site))
  /\ [][ \A i \in DOMAIN futures :
           (/\ pc = "harvest" /\ pc' = "harvest"
            /\ Linkless(futures[i].ef)
            /\ futures[i].st = "queued" /\ futures'[i].st # "queued") =>
             /\ futures'[i].st = "done"
             /\ open_sessions' = open_sessions ]_vars

C22_Witness ==
  /\ pc = "returned"
  /\ \E k \in DOMAIN all_data :
       /\ all_src[k].ef.Id = "ef2"
       /\ all_src[k].dir = "nolink"
       /\ DOMAIN all_data[k] = CoreKeys

\* every value task of the batch and of the records so far, with what is
\* known of its request: the descriptor, whether a request is in flight,
\* and how the value was obtained ("none" while it has not run)
ValueTasks ==
  UNION { { [attr |-> futures[i].vt[j].attr,
             get |-> futures[i].vt[j].st = "get",
             out |-> futures[i].vt[j].out,
             res |-> futures[i].vt[j].res] : j \in DOMAIN futures[i].vt } :
          i \in DOMAIN futures }
  \cup
  UNION { { [attr |-> all_src[k].attrs[j], get |-> FALSE,
             out |-> all_src[k].outs[j],
             res |-> all_src[k].res[j]] : j \in DOMAIN all_src[k].attrs } :
          k \in DOMAIN all_src }

\* the task has sent a request to the value endpoint
Requested(v) == v.get \/ v.out \in {"ok", "fail"}

\* C23, as stated: a value task sends a request only if the descriptor
\* carries no inline value; an attribute with an inline value is resolved
\* without a request
C23_RequestOnlyWithoutInline ==
  \A v \in ValueTasks :
    /\ Requested(v) => v.attr.Value = NoneVal
    /\ v.attr.Value # NoneVal => ~Requested(v)

\* C23, amended: a value task sends a request to the value endpoint if and
\* only if the descriptor carries a value link, whether or not it also
\* carries an inline value; an attribute without a value link is resolved
\* from its inline value without a request
C23_RequestIffValueLink ==
  \A v \in ValueTasks :
    /\ Requested(v) => v.attr.Links.Value # NoneVal
    /\ (v.attr.Links.Value # NoneVal /\ v.out # "none") => Requested(v)
    /\ (v.attr.Links.Value = NoneVal /\ v.out # "none") =>
         /\ v.out = "inline"
         /\ v.res = << v.attr.Name, ValueToStore(v.attr.Value) >>

C23_Witness ==
  /\ pc = "returned"
  /\ \E k \in DOMAIN all_data : \E j \in DOMAIN all_src[k].attrs :
       /\ all_src[k].attrs[j] = BothAttr
       /\ all_src[k].outs[j] = "ok"
       /\ all_data[k]["C"] = "42"
  /\ \E k \in DOMAIN all_data : \E j \in DOMAIN all_src[k].attrs :
       /\ all_src[k].attrs[j].Links.Value = NoneVal
       /\ all_src[k].outs[j] = "inline"

\* the list queries of the run so far that did not split
Unsplit == DOMAIN qlog \ Splits

\* the intervals of the run are accounted for: the interval of the call and
\* two for every split are as many as those waiting on the stack, the one
\* whose list query is in flight, and those that were queried and consumed
EachIntervalOnce ==
  pc \in {"loop", "list", "harvest", "returned"} /\ site \in DOMAIN SITES_PARAM =>
    1 + 2 * Cardinality(Splits) =
      Len(processing_stack) + (IF pc = "list" THEN 1 ELSE 0) + Len(qlog)

\* the last list query failed and there is work left on the stack
FailedWithWork ==
  /\ qlog # << >> /\ ~qlog[Len(qlog)].ok
  /\ pc = "loop" /\ processing_stack # << >>

\* C24: a failed list query is not retried. Every popped interval is list
\* queried once (the queries are the list responses, one per pop, each for
\* the popped interval); the response to a failed query adds no record,
\* starts no task, does not bisect and pushes nothing back; and the
\* intervals left on the stack are processed: the next query is made, for
\* the interval then on top
C24_FailedChunkNotRetried ==
  /\ [] EachIntervalOnce
  /\ [][ /\ (pc = "list" /\ pc' # "list") =>
              /\ Len(qlog') = Len(qlog) + 1
              /\ qlog'[Len(qlog')].iv = cur
         /\ (pc = "list" /\ pc' # "list" /\ ~qlog'[Len(qlog')].ok) =>
              /\ pc' = "loop"
              /\ qlog'[Len(qlog')].act = "empty"
              /\ processing_stack' = processing_stack
              /\ all_data' = all_data /\ all_attrs' = all_attrs
              /\ futures' = << >> /\ dispatched' = dispatched
         /\ (pc = "loop" /\ pc' = "list") =>
              /\ cur' = processing_stack[Len(processing_stack)]
              /\ Len(processing_stack') = Len(processing_stack) - 1
         /\ (pc # "list") => qlog' = qlog ]_vars
  /\ FailedWithWork ~> (pc = "list")

C24_Witness ==
  /\ pc = "returned" /\ Len(qlog) = 3
  /\ qlog[1].act = "split"
  /\ ~qlog[2].ok
  /\ qlog[3].act = "dispatch" /\ all_data # << >>

\* the place in the batch list of the record of collected frame task i:
\* the number of tasks handed over no later than it
PlaceOf(i) ==
  Cardinality({ j \in Collected : futures[j].takenAt <= futures[i].takenAt })

\* C25, as stated: the records of a batch are in the order in which the
\* frame tasks completed
C25_CompletionOrder ==
  \A a, b \in DOMAIN chunk_src :
    a < b => chunk_src[a].doneAt < chunk_src[b].doneAt

\* C25, amended: the records of a batch are appended in the order in which
\* as_completed hands the finished frame tasks to the control thread,
\* whatever the order of submission: a task is handed over only after it
\* has returned and its record is appended then, so the record of a task
\* handed over before another task returned precedes that task's record;
\* tasks that have both returned before either is handed over come in
\* either order
C25_HandOverOrder ==
  pc = "harvest" =>
    /\ \A i \in Collected :
         /\ 0 < futures[i].doneAt
         /\ futures[i].doneAt < futures[i].takenAt
         /\ PlaceOf(i) \in DOMAIN chunk_data
         /\ chunk_data[PlaceOf(i)] = futures[i].ef_data
         /\ chunk_src[PlaceOf(i)].ef = futures[i].ef
    /\ \A i, j \in Collected :
         futures[i].takenAt < futures[j].doneAt => PlaceOf(i) < PlaceOf(j)
    /\ \A i \in DOMAIN futures \ Collected : futures[i].takenAt = 0

C25_Witness ==
  /\ pc = "harvest" /\ Len(futures) = 2 /\ Collected = {1, 2}
  /\ futures[2].doneAt < futures[1].doneAt
  /\ futures[1].takenAt < futures[2].takenAt
  /\ chunk_src[1].ef = futures[1].ef

\* C26: no record that the legacy fetch_eventframes returns comes from a
\* frame whose EndTime begins with '9999-12-31'
C26_LegacyNoOpenFrame ==
  pc \in {"legacy_loop", "legacy_list", "legacy_harvest", "legacy_returned"} =>
    \A k \in DOMAIN all_src : ~IsOpen(all_src[k].ef)

CallerInterval == IF qlog = << >> THEN cur ELSE qlog[1].iv

Ordered(iv) == iv[1].t <= iv[2].t

\* C28: when the caller's interval has start <= end, every interval on the
\* work-stack, the interval of the list query in flight and the interval of
\* every list query made so far have start <= end
C28_IntervalsOrdered ==
  Ordered(CallerInterval) =>
    /\ \A i \in DOMAIN processing_stack : Ordered(processing_stack[i])
    /\ pc = "list" => Ordered(cur)
    /\ \A k \in DOMAIN qlog : Ordered(qlog[k].iv)

C28_Witness ==
  /\ Ordered(CallerInterval)
  /\ \E k \in Splits : Width(qlog[k].iv) = 3
  /\ \E k \in Splits : Width(qlog[k].iv) = 1
  /\ \E i \in DOMAIN processing_stack : Width(processing_stack[i]) = 0
  /\ \E k \in DOMAIN qlog : Width(qlog[k].iv) = 0

\* the intervals handled without a split, in the order of their list
\* queries, followed by the work-stack read from top to bottom
HandledThenStacked ==
  LET U == SelectSeq(qlog, LAMBDA e : e.act # "split")
      n == Len(processing_stack)
  IN  [ i \in 1..(Len(U) + n) |->
          IF i <= Len(U) THEN U[i].iv ELSE processing_stack[n - (i - Len(U)) + 1] ]

\* C29: at the head of the loop the handled intervals followed by the
\* stacked ones, top first, form one chain from the caller's start to the
\* caller's end: each interval ends where the next one starts, so the top of
\* the stack starts where the last handled interval ended and the bottom
\* ends at the caller's end
C29_StackIsContiguousChain ==
  pc = "loop" =>
    LET ch == HandledThenStacked
    IN  /\ ch # << >>
        /\ ch[1][1] = CallerInterval[1]
        /\ ch[Len(ch)][2] = CallerInterval[2]
        /\ \A i \in 1..(Len(ch) - 1) : ch[i][2] = ch[i + 1][1]

C29_Witness ==
  /\ pc = "loop"
  /\ Len(processing_stack) >= 2
  /\ Cardinality(Splits) >= 2
  /\ \E k \in Unsplit : qlog[k].act = "dispatch"
  /\ processing_stack[Len(processing_stack)][1] # CallerInterval[1]

\* number of frames submitted by the list queries before the k-th one
RECURSIVE SubmittedBefore(_)
SubmittedBefore(k) ==
  IF k <= 1 THEN 0 ELSE SubmittedBefore(k - 1) + Len(qlog[k - 1].batch)

\* C30: of two intervals that were not split the one with the smaller start
\* was list-queried first, and at the head of the loop and at the return the
\* records of the output stand batch by batch in the order of the list
\* queries: a batch is harvested whole before the next interval is queried
C30_UnsplitInChronologicalOrder ==
  /\ \A k, l \in Unsplit :
       qlog[k].iv[1].t < qlog[l].iv[1].t => k < l
  /\ pc \in {"loop", "list", "returned"} =>
       /\ \A i \in DOMAIN futures : futures[i].st = "collected"
       /\ \A k \in DOMAIN qlog : \A i \in DOMAIN qlog[k].batch :
            /\ SubmittedBefore(k) + i <= Len(all_src)
            /\ \E j \in DOMAIN qlog[k].batch :
                 all_src[SubmittedBefore(k) + i].ef = qlog[k].batch[j]

C30_Witness ==
  /\ pc = "returned"
  /\ Splits # {}
  /\ \E k, l \in Unsplit :
       /\ qlog[k].iv[1].t < qlog[l].iv[1].t
       /\ qlog[k].batch # << >> /\ qlog[l].batch # << >>
       /\ qlog[k].batch[1] # qlog[l].batch[1]
  /\ Len(all_src) = 2

\* the attribute names merged into the record of a frame: the truthy names
\* its value tasks returned
MergedNames(src) ==
  { src.res[j][1] : j \in DOMAIN src.res } \ {"", NoneVal}

\* C31: the set of attribute names accumulated next to the output is the
\* union over the records of the output of the names merged into each
\* record: every name of the set is a key of some record, and every key a
\* record got from its attributes is in the set
C31_NameSetIsUnionOfMerged ==
  /\ all_attrs = UNION { MergedNames(all_src[k]) : k \in DOMAIN all_src }
  /\ \A n \in all_attrs : \E k \in DOMAIN all_data : n \in DOMAIN all_data[k]
  /\ \A k \in DOMAIN all_data :
       /\ MergedNames(all_src[k]) \subseteq DOMAIN all_data[k]
       /\ DOMAIN all_data[k] \ CoreKeys \subseteq all_attrs

C31_Witness ==
  /\ pc = "returned"
  /\ \E k, l \in DOMAIN all_src :
       /\ MergedNames(all_src[k]) # {}
       /\ MergedNames(all_src[l]) # {}
       /\ MergedNames(all_src[k]) # MergedNames(all_src[l])
       /\ all_attrs # MergedNames(all_src[k])
       /\ all_attrs # MergedNames(all_src[l])

\* C32: after the merge of the resolved attributes each of the eight core
\* fields of a record still holds the value derived from the frame
\* descriptor, whatever the names in the attribute directory are
C32_CoreFieldsSurviveMerge ==
  /\ \A i \in FramesIn("done") : \A c \in CoreKeys :
       futures[i].ef_data[c] = ParseBasicInfo(futures[i].ef, site)[c]
  /\ \A k \in DOMAIN all_data : \A c \in CoreKeys :
       all_data[k][c] = ParseBasicInfo(all_src[k].ef, site)[c]

\* the names of the directory are pairwise distinct
DistinctNames(attrs) ==
  \A a, b \in DOMAIN attrs : a # b => attrs[a].Name # attrs[b].Name

\* the attribute values that follow from the outcomes res of the value
\* tasks J alone: each truthy name with the value its task returned
ValuesByOutcome(res, J) ==
  [ n \in { res[j][1] : j \in J } \ {"", NoneVal} |->
      res[CHOOSE j \in J : res[j][1] = n][2] ]

\* C33: for a frame whose directory lists pairwise distinct names the
\* values merged so far, and the record in the end, are determined by the
\* outcomes of the value tasks alone, in whatever order the tasks completed
\* and were handed over
C33_MergeIndependentOfOrder ==
  /\ \A i \in FramesIn("values") :
       LET f == futures[i]
           res == [j \in DOMAIN f.vt |-> f.vt[j].res]
       IN  DistinctNames([j \in DOMAIN f.vt |-> f.vt[j].attr]) =>
             f.attribute_values =
               ValuesByOutcome(res, { j \in DOMAIN f.vt : f.vt[j].st = "collected" })
  /\ \A k \in DOMAIN all_data :
       LET src == all_src[k]
       IN  (src.dir = "items" /\ DistinctNames(src.attrs)) =>
             all_data[k] = DictUpdate(ParseBasicInfo(src.ef, site),
                                      ValuesByOutcome(src.res, DOMAIN src.res))

C33_Witness ==
  \E i \in FramesIn("values") :
    LET f == futures[i]
    IN  /\ Len(f.vt) = 2
        /\ DistinctNames([j \in DOMAIN f.vt |-> f.vt[j].attr])
        /\ f.vt[2].st = "collected" /\ f.vt[1].st = "done"
        /\ f.vt[1].out = "fail" /\ f.vt[2].out = "ok"
        /\ DOMAIN f.attribute_values = {f.vt[2].attr.Name}

\* the whole second, counted from the epoch of the model, an instant lies in
InstantSecond(dt) == dt.t \div MICROS

\* C34: the startTime and endTime of every list query, read as UTC
\* timestamps, are the instants of the start and the end of the interval
\* truncated to whole seconds, whatever the UTC offset of the datetimes
C34_QueryTimesAreUtcInstants ==
  /\ pc = "list" =>
       /\ FormatZ(cur[1]) = InstantSecond(cur[1])
       /\ FormatZ(cur[2]) = InstantSecond(cur[2])
  /\ \A k \in DOMAIN qlog :
       /\ FormatZ(qlog[k].iv[1]) = InstantSecond(qlog[k].iv[1])
       /\ FormatZ(qlog[k].iv[2]) = InstantSecond(qlog[k].iv[2])

\* the visits of the current cycle, the running one last
Visits ==
  IF run.pc \in {"connect", "read", "fetch", "insert", "update", "close"}
  THEN Append(run.done, run.v) ELSE run.done

\* a visit that got no connection saw three failed attempts and no fetch, no
\* insert and no checkpoint update
NoConnectionNoWork(v) ==
  /\ v.attempts <= max_db_retries
  /\ ~v.connected =>
       /\ v.start_time = << >> /\ v.window = << >>
       /\ v.fetch = "none" /\ v.insert = "none" /\ v.update = "none"

\* C35: in run mode the connection of a site is attempted at most three
\* times in a cycle; fetch_eventframes, the insert and the checkpoint update
\* run only with an established connection; when the third attempt fails
\* the visit of the site ends without them, the checkpoints stay as they
\* are, and the loop goes on to the next site (or to the wait that ends the
\* cycle)
C35_ThreeAttemptsThenSkip ==
  /\ [] (\A k \in DOMAIN Visits : NoConnectionNoWork(Visits[k]))
  /\ [] (\A k \in DOMAIN run.done :
           ~run.done[k].connected => run.done[k].attempts = max_db_retries)
  /\ [] (run.pc \in {"read", "fetch", "insert", "update", "close"} =>
           run.conn /\ run.v.connected)
  /\ [][ (run.pc = "connect" /\ run'.pc \notin {"connect", "read", "stopped"}) =>
           /\ run.v.attempts = max_db_retries - 1
           /\ run'.done =
                Append(run.done, [run.v EXCEPT !.attempts = max_db_retries])
           /\ run'.table = run.table /\ ~run'.conn
           /\ IF run.idx < Len(SITES_RUN)
              THEN /\ run'.pc = "connect" /\ run'.idx = run.idx + 1
                   /\ run'.v = NewVisit(SITES_RUN[run.idx + 1])
              ELSE run'.pc = "sleep" ]_vars
  /\ [][ \A s \in DOMAIN run.table : run'.table[s] # run.table[s] =>
           run.pc = "update" /\ run.v.site = s /\ run.conn ]_vars

C35_Witness ==
  /\ run.pc = "fetch" /\ run.idx = 2 /\ run.conn
  /\ Len(run.done) = 1
  /\ ~run.done[1].connected /\ run.done[1].attempts = max_db_retries
  /\ run.v.attempts = max_db_retries

\* the fetch, and the insert when records were found, completed without
\* raising
FetchAndInsertDone(v) ==
  \/ v.fetch = "empty"
  \/ v.fetch = "rows" /\ v.insert = "ok"

\* C36: the checkpoint of a site is written in a cycle if and only if the
\* fetch and, when records were found, the insert completed without
\* raising, with or without records, and the value written is the
\* current_run_time of the cycle
C36_CheckpointIffFetched ==
  \A k \in DOMAIN run.done :
    LET v == run.done[k]
    IN  /\ v.update = "ok" <=> FetchAndInsertDone(v)
        /\ v.update = "ok" =>
             run.table[v.site] = Checkpoint(run.current_run_time)

\* C36, amended: update_last_run_time is called if and only if the fetch
\* and, when records were found, the insert completed without raising, with
\* or without records; the call writes the current_run_time of the cycle,
\* taken before the first site of the cycle, or, when its MERGE fails,
\* leaves the table as it is
C36_UpdateCalledIffFetched ==
  /\ [] (\A k \in DOMAIN run.done :
           LET v == run.done[k]
           IN  /\ v.update # "none" <=> FetchAndInsertDone(v)
               /\ v.update = "ok" =>
                    run.table[v.site] = Checkpoint(run.current_run_time))
  /\ [][ (run.pc = "update" /\ run'.pc = "close") =>
           \/ /\ run'.v.update = "ok"
              /\ run'.table = [run.table EXCEPT ![run.v.site] =
                                 Checkpoint(run.current_run_time)]
           \/ /\ run'.v.update = "fail"
              /\ run'.table = run.table ]_vars
  /\ [][ run'.current_run_time # run.current_run_time =>
           /\ run.pc = "cycle" /\ run'.done = << >>
           /\ run'.current_run_time = run.now ]_vars

C36_Witness ==
  /\ Len(run.done) = 2
  /\ run.done[1].fetch = "empty" /\ run.done[1].update = "ok"
  /\ run.done[2].fetch = "rows" /\ run.done[2].insert = "ok"
  /\ run.done[2].update = "fail"
  /\ run.done[1].window[2] > run.current_run_time
  /\ run.table[run.done[1].site] = Checkpoint(run.current_run_time)
  /\ run.table[run.done[2].site] # Checkpoint(run.current_run_time)

\* the site being handled has fetched its window and not yet updated its
\* checkpoint: the table still holds the checkpoint the window follows
WindowFetched == run.pc \in {"insert", "update"} /\ run.v.window # << >>

\* a checkpoint is not later than the end of the window fetched in the
\* cycle that stored it
CheckpointWithinWindow ==
  \A s \in DOMAIN run.table :
    run.stored_end[s] # << >> =>
      /\ run.table[s] # NoCheckpoint
      /\ run.table[s][1] <= run.stored_end[s][1]

\* C37: a fetch window of a site that has a stored checkpoint starts at that
\* checkpoint, and a checkpoint is not later than the end of the window
\* fetched in the cycle that stored it
C37_WindowStartsAtCheckpoint ==
  /\ (WindowFetched /\ run.table[run.v.site] # NoCheckpoint) =>
       run.v.window[1] = run.table[run.v.site][1]
  /\ CheckpointWithinWindow

\* C37, amended: a fetch window for which a checkpoint was read starts at
\* the whole second that checkpoint lies in, which is at or before the
\* checkpoint and less than a second before it; a window for which none was
\* read starts 360 hours before the current_run_time of the cycle, at the
\* whole second; every window ends at or after the current_run_time of its
\* cycle, and a checkpoint is not later than the end of the window fetched
\* in the cycle that stored it
C37_WindowStartsAtCheckpointSecond ==
  /\ WindowFetched =>
       LET v == run.v
       IN  /\ v.last_run \in {run.table[v.site], NoCheckpoint}
           /\ v.last_run # NoCheckpoint =>
                /\ v.window[1] = WholeSecond(v.last_run[1])
                /\ v.window[1] <= v.last_run[1]
                /\ v.last_run[1] - v.window[1] < TICKS
           /\ v.last_run = NoCheckpoint =>
                v.window[1] = WholeSecond(run.current_run_time - LOOKBACK)
           /\ v.window[2] >= run.current_run_time
  /\ CheckpointWithinWindow

C37_Witness ==
  /\ WindowFetched
  /\ run.cycle = 2
  /\ run.stored_end[run.v.site] # << >>
  /\ run.v.last_run = run.table[run.v.site]
  /\ run.v.window[1] < run.v.last_run[1]
  /\ run.v.last_run[1] < run.stored_end[run.v.site][1]

====
